---- MODULE Spec2Model ----
(***************************************************************************)
(* Executor core of the cxio/suite script system: the Actuator (ibase),    *)
(* the dispatch loop and the envelopes (inst), the instruction handlers    *)
(* the properties below are about, and the script pool's Get (xpool).      *)
(*                                                                         *)
(* A run is ScriptRun on a freshly built top-level Actuator.  The nested   *)
(* Go calls codeRun -> instCall -> handler -> codeRun ... are the sequence *)
(* `frames`; one action is one pass of the body of codeRun's loop, cut in  *)
(* two where the handler runs a child executor.                            *)
(***************************************************************************)
EXTENDS Integers, Sequences, FiniteSets, TLC

\* ------------------------------------------------------------------ limits
ScopeMax == 128
StackMax == 256
GotoMax == 3
JumpMax == 9

StackFlag == 0
ArgsFlag == 1
ScopeFlag == 2

\* ------------------------------------------------------------------ bounds
\* Largest ordinary pre-fill of the input buffer.
MaxInput == 2
\* The per-executor counters `calls` and `done` stop counting here.
MaxCalls == 4
\* Longest stack and args region the client of SpecApi builds.
MaxLen == 3
\* The args region is followed up to this many values.
MaxArgs == 4
\* Goroutines that call xpool.Get at the same time.
MaxProcs == 3
\* Calls of xpool.Serve in one process.
MaxServe == 3

\* ------------------------------------------------------------------ values
\* A runtime value is a pair <<type, payload>>.
Nil == <<"Nil", 0>>
BoolV(b) == <<"Bool", IF b THEN 1 ELSE 0>>
IntV(n) == <<"Int", n>>
\* A []any holding the values of the sequence s.
Anys(s) == <<"Anys", s>>
\* A Bytes value that holds the instruction sequence code.
CodeV(code) == <<"Bytes", code>>
\* A *Script value whose source is code.
ScriptV(code) == <<"Script", code>>
\* A []Int holding the values of the sequence s.
Ints(s) == <<"Ints", s>>
\* A Go int, as the key of a slice element and the size of a collection.
GoInt(n) == <<"int", n>>
\* A Float, kept exactly as the fraction num / den; den = 0 after a
\* division by zero.
FloatV(num, den) == <<"Float", num, den>>

\* ------------------------------------------------------------ instructions
\* An instruction of a script: opcode, its aux/data number, its sub-block.
Ins(op, n, body) == [op |-> op, n |-> n, body |-> body]

I_NIL == Ins("NIL", 0, <<>>)
I_TRUE == Ins("TRUE", 0, <<>>)
I_Uint8(v) == Ins("Uint8", v, <<>>)
I_Capture == Ins("Capture", 0, <<>>)
I_Bring == Ins("Bring", 0, <<>>)
I_ScopeAdd == Ins("ScopeAdd", 0, <<>>)
I_NOP == Ins("NOP", 0, <<>>)
I_PUSH == Ins("PUSH", 0, <<>>)
I_POP == Ins("POP", 0, <<>>)
I_INPUT(n) == Ins("INPUT", n, <<>>)
I_GOTO(k) == Ins("GOTO", k, <<>>)
I_JUMP(k) == Ins("JUMP", k, <<>>)
\* ENV(n): n is the identifier of the entry, instor.EnvInGoto and
\* instor.EnvInJump among them.
EnvInGoto == 9
EnvInJump == 10
I_ENV(n) == Ins("ENV", n, <<>>)
I_EXIT == Ins("EXIT", 0, <<>>)
I_RETURN == Ins("RETURN", 0, <<>>)
I_IF(body) == Ins("IF", 0, body)
I_ELSE(body) == Ins("ELSE", 0, body)
I_BLOCK(body) == Ins("BLOCK", 0, body)
I_SWITCH(body) == Ins("SWITCH", 0, body)
I_CASE(body) == Ins("CASE", 0, body)
I_DEFAULT(body) == Ins("DEFAULT", 0, body)
I_EACH(body) == Ins("EACH", 0, body)
I_CONTINUE == Ins("CONTINUE", 0, <<>>)
I_BREAK == Ins("BREAK", 0, <<>>)
I_FALLTHROUGH == Ins("FALLTHROUGH", 0, <<>>)
I_LoopVal(i) == Ins("LoopVal", i, <<>>)
I_ScopeVal(i) == Ins("ScopeVal", i, <<>>)
I_RANGE(size) == Ins("RANGE", size, <<>>)
I_VAR(i) == Ins("VAR", i, <<>>)
I_SETVAR(i) == Ins("SETVAR", i, <<>>)
I_OUTPUT == Ins("OUTPUT", 0, <<>>)
I_MAP(body) == Ins("MAP", 0, body)
I_Expr(body) == Ins("Expr", 0, body)
I_Mul == Ins("Mul", 0, <<>>)
I_Div == Ins("Div", 0, <<>>)
I_Add == Ins("Add", 0, <<>>)
I_Sub == Ins("Sub", 0, <<>>)
I_FILTER(body) == Ins("FILTER", 0, body)
I_BUFDUMP(n) == Ins("BUFDUMP", n, <<>>)
I_Uint63(v) == Ins("Uint63", v, <<>>)
\* The pattern instructions: _  !{Type}  #(flag)  ...
I_Wildcard == Ins("Wildcard", 0, <<>>)
I_TypeIs(t) == Ins("TypeIs", t, <<>>)
I_ValPick(flag) == Ins("ValPick", flag, <<>>)
I_WildLump == Ins("WildLump", 0, <<>>)
\* ?(len): the picker of instor takes the opcode and the length byte as the
\* instruction, so the len bytes of `?(len){B}` are the instructions after it.
I_Wildlist(len) == Ins("Wildlist", len, <<>>)
\* MODEL(f){m}: f is 1 when the capture bit is set, m the pattern.
I_MODEL(f, m) == Ins("MODEL", f, m)
I_EVAL == Ins("EVAL", 0, <<>>)

\* Instx.Argn of each opcode, as init() fills __InstSet.
Argn(op) ==
    CASE op \in {"NOP", "PUSH", "GOTO", "EXIT", "CONTINUE", "BREAK", "OUTPUT",
                 "MAP", "FILTER"} -> -1
      [] op \in {"RETURN", "IF", "EACH", "SETVAR", "MODEL", "EVAL"} -> 1
      [] op \in {"SWITCH", "RANGE"} -> 2
      [] OTHER -> 0

RECURSIVE SrcLen(_)
\* Insted.Size: the bytes one instruction takes (the pickers of instor).
Size(ins) ==
    CASE ins.op \in {"Uint8", "INPUT", "LoopVal", "ScopeVal", "VAR", "SETVAR", "BUFDUMP",
                     "TypeIs", "ValPick", "Wildlist", "ENV"} -> 2
      [] ins.op = "RANGE" -> 3
      [] ins.op = "MODEL" -> 3 + SrcLen(ins.body)
      [] ins.op = "Uint63" -> IF ins.n < 128 THEN 2 ELSE 3
      [] ins.op \in {"GOTO", "JUMP"} -> 11
      [] ins.op \in {"IF", "ELSE", "BLOCK", "SWITCH", "CASE", "DEFAULT", "EACH",
                     "MAP", "FILTER", "Expr"} ->
            2 + SrcLen(ins.body)
      [] OTHER -> 1

\* len(source) in bytes.
SrcLen(src) == IF src = <<>> THEN 0 ELSE Size(Head(src)) + SrcLen(Tail(src))

RECURSIVE Get(_, _)
\* instor.Get(code): the instruction that starts at byte `off` of `src`.
Get(src, off) ==
    IF off = 0 THEN Head(src) ELSE Get(Tail(src), off - Size(Head(src)))

\* ------------------------------------------------------------------ Script
NewScript(b) == [source |-> b, offset |-> 0, nullpos |-> 0]
End(s) == s.offset >= SrcLen(s.source)
Code(s) == Get(s.source, s.offset)
ScriptNext(s, n) == [s EXCEPT !.offset = @ + n]

\* -------------------------------------------------- stack, args, buffer
\* Each returns [v: the container afterwards, out: what the call returns,
\* err: "" or the panic it raises].
\* stack.push that lets one value too many in.
push_OneMore(s, vs) ==
    IF Len(s) + Len(vs) > StackMax + 1
    THEN [v |-> s, out |-> <<>>, err |-> "stackOver"]
    ELSE [v |-> s \o vs, out |-> <<>>, err |-> ""]

push(s, vs) ==
    IF Len(s) + Len(vs) > StackMax
    THEN [v |-> s, out |-> <<>>, err |-> "stackOver"]
    ELSE [v |-> s \o vs, out |-> <<>>, err |-> ""]

pop(s) ==
    IF Len(s) - 1 < 0
    THEN [v |-> s, out |-> <<>>, err |-> "stackEmpty"]
    ELSE [v |-> SubSeq(s, 1, Len(s) - 1), out |-> <<s[Len(s)]>>, err |-> ""]

pops(s, n) ==
    IF Len(s) - n < 0
    THEN [v |-> s, out |-> <<>>, err |-> "stackShort"]
    ELSE [v |-> SubSeq(s, 1, Len(s) - n),
          out |-> SubSeq(s, Len(s) - n + 1, Len(s)), err |-> ""]

put(a, vs) == a \o vs

take(a) == [v |-> <<>>, out |-> a, err |-> ""]

add(s, vs) ==
    IF Len(s) + Len(vs) > ScopeMax
    THEN [v |-> s, out |-> <<>>, err |-> "scopeOver"]
    ELSE [v |-> s \o vs, out |-> <<>>, err |-> ""]

pick(b, n) ==
    IF n = 0 THEN [v |-> <<>>, out |-> b, err |-> ""]
    ELSE IF n > Len(b) THEN [v |-> b, out |-> <<>>, err |-> "bufShort"]
    ELSE [v |-> SubSeq(b, n + 1, Len(b)), out |-> SubSeq(b, 1, n), err |-> ""]

\* spaces: the bundle an executor works on.
NewSpaces == [stack |-> <<>>, args |-> <<>>, bufin |-> <<>>, bufout |-> <<>>]
\* scopeNew that hands the new spaces no buffers.
scopeNewBare(s) == [stack |-> <<>>, args |-> <<>>, bufin |-> <<>>, bufout |-> <<>>]
scopeNew(s) == [stack |-> <<>>, args |-> <<>>, bufin |-> s.bufin, bufout |-> s.bufout]

\* ---------------------------------------------------------------- Actuator
\* An executor's switchX: nil unless SwitchNew or CaseNew made the executor;
\* `through` is the frame that holds the pointed-to flag, 0 for a nil pointer.
NoSwitch == [nil |-> TRUE, target |-> Nil, cases |-> <<>>, through |-> 0]

\* One executor.  Besides the fields of the Go struct it carries the locals
\* of the Go calls in progress for it: `run` the function that called
\* codeRun on it, `x` codeRun's local x, `s` instCall's local s, `pend` the
\* handler that is waiting for a child executor; and two history counters,
\* `calls` (instCall invocations) and `done` (completed loop passes).
\* `gotos`/`jumps` tell whether the countx pointers are non-nil.  `loopVar`
\* is <<>> for a nil pointer, else <<Value, Key, Data, Size>>; `h` holds the
\* locals of the waiting handler.  `inExpr` is the frame that holds the
\* counter the inExpr pointer addresses, `depth` the value of the counter
\* this frame holds.
Actuator(kind, run, id, code, sp, gotos, jumps) ==
    [kind |-> kind, run |-> run, ID |-> id, Script |-> NewScript(code),
     BackTo |-> StackFlag, FromStack |-> FALSE, changed |-> FALSE,
     Ifs |-> "nil", scope |-> <<>>, sp |-> sp,
     gotos |-> gotos, jumps |-> jumps,
     pend |-> "", x |-> StackFlag, s |-> NewScript(code),
     calls |-> 0, done |-> 0,
     switchX |-> NoSwitch, through |-> FALSE, loopVar |-> <<>>, h |-> <<>>,
     global |-> 1, inExpr |-> 1, depth |-> 0]

NewActuator(id, code) == Actuator("NewActuator", "ScriptRun", id, code, 1, TRUE, TRUE)

BlockNew(a, code) ==
    [Actuator("BlockNew", "codeRun", a.ID, code, a.sp, a.gotos, a.jumps)
        EXCEPT !.loopVar = a.loopVar, !.global = a.global]

\* Actuator.SwitchNew for the executor that will be frame n: newSwitch
\* allocates the through flag, kept in field `through` of that frame.
SwitchNew(a, n, code, target, cases) ==
    [Actuator("SwitchNew", "execPart", a.ID, code, a.sp, a.gotos, a.jumps)
        EXCEPT !.loopVar = a.loopVar, !.global = a.global,
               !.switchX = [nil |-> FALSE, target |-> target, cases |-> cases, through |-> n]]

\* Actuator.CaseNew with switchX.caseIn: the comparison values are zeroed,
\* the through pointer is the switch executor's.
CaseNew(a, code) ==
    [Actuator("CaseNew", "codeRun", a.ID, code, a.sp, a.gotos, a.jumps)
        EXCEPT !.loopVar = a.loopVar, !.global = a.global,
               !.switchX = [nil |-> FALSE, target |-> Nil, cases |-> <<>>,
                            through |-> a.switchX.through]]

\* Actuator.ScriptNew, with sp the spaces scopeNew has made and g the
\* global map make has made.
ScriptNew(a, id, code, sp, g) ==
    [Actuator("ScriptNew", "runEmbed", id, code, sp, a.gotos, a.jumps) EXCEPT !.global = g]

EmbedNew(a, id, code) ==
    [Actuator("EmbedNew", "runEmbed", id, code, a.sp, a.gotos, a.jumps)
        EXCEPT !.global = a.global]

\* state.Revert
Revert(a) ==
    IF ~a.changed THEN a
    ELSE [a EXCEPT !.BackTo = StackFlag, !.FromStack = FALSE, !.changed = FALSE]

\* state.Change
Change(a) == [a EXCEPT !.changed = TRUE]

\* Actuator.Arguments that looks at the args region only, not at FromStack.
Arguments_NoBring(a, sp, n) ==
    IF n = 0 THEN [sp |-> sp, vs |-> <<>>, err |-> ""]
    ELSE IF n < 0
    THEN [sp |-> [sp EXCEPT !.args = take(sp.args).v],
          vs |-> take(sp.args).out, err |-> ""]
    ELSE IF Len(sp.args) = 0
    THEN [sp |-> [sp EXCEPT !.stack = pops(sp.stack, n).v],
          vs |-> pops(sp.stack, n).out, err |-> pops(sp.stack, n).err]
    ELSE IF Len(sp.args) # n
    THEN [sp |-> sp, vs |-> <<>>, err |-> "argsAmount"]
    ELSE [sp |-> [sp EXCEPT !.args = take(sp.args).v],
          vs |-> take(sp.args).out, err |-> ""]

\* Actuator.Arguments on executor a with spaces sp:
\* [sp: the spaces afterwards, vs: the arguments, err].
Arguments(a, sp, n) ==
    IF n = 0 THEN [sp |-> sp, vs |-> <<>>, err |-> ""]
    ELSE IF n < 0
    THEN [sp |-> [sp EXCEPT !.args = take(sp.args).v],
          vs |-> take(sp.args).out, err |-> ""]
    ELSE IF a.FromStack \/ Len(sp.args) = 0
    THEN [sp |-> [sp EXCEPT !.stack = pops(sp.stack, n).v],
          vs |-> pops(sp.stack, n).out, err |-> pops(sp.stack, n).err]
    ELSE IF Len(sp.args) # n
    THEN [sp |-> sp, vs |-> <<>>, err |-> "argsAmount"]
    ELSE [sp |-> [sp EXCEPT !.args = take(sp.args).v],
          vs |-> take(sp.args).out, err |-> ""]

\* Actuator.ReturnPut(to, vs); vs = <<>> stands for nil as well:
\* [a, sp, err].
ReturnPut(a, sp, to, vs) ==
    IF vs = <<>> THEN [a |-> a, sp |-> sp, err |-> ""]
    ELSE CASE to = StackFlag ->
                [a |-> a, sp |-> [sp EXCEPT !.stack = push(sp.stack, vs).v],
                 err |-> push(sp.stack, vs).err]
           [] to = ArgsFlag ->
                [a |-> a, sp |-> [sp EXCEPT !.args = put(sp.args, vs)], err |-> ""]
           [] to = ScopeFlag ->
                [a |-> [a EXCEPT !.scope = add(a.scope, vs).v], sp |-> sp,
                 err |-> add(a.scope, vs).err]
           [] OTHER -> [a |-> a, sp |-> sp, err |-> "ErrToHere"]

\* ------------------------------------------------------------------ panics
NoPanic == [e |-> "", Kind |-> "", Data |-> Nil]
PErr(e) == [e |-> e, Kind |-> "", Data |-> Nil]
Leave(kind, data) == [e |-> "Leave", Kind |-> kind, Data |-> data]
\* panic(_CONTINUE_) and panic(_BREAK_)
Cease(kind) == [e |-> "cease", Kind |-> kind, Data |-> Nil]

\* ------------------------------------------------------------------- state
\* xpool before any call of Serve: serving is false, no loop runs.
\* `pass` is the last call of shear: how many there were, its limit and
\* the pool it met.
NoPass == [n |-> 0, limit |-> 0, pool |-> <<>>]
NoServe == [serving |-> FALSE, loops |-> <<>>, calls |-> <<>>, pass |-> NoPass]
\* No call of model.Check.
NoMatch == <<>>

VARIABLES
    frames,   \* the executors of the nested codeRun calls, outermost first
    spaces,   \* every spaces bundle created so far; an executor holds an index
    gotos,    \* *countx.gotos of the run
    jumps,    \* *countx.jumps of the run
    pool,     \* xpool.pool
    gets,     \* number of xpool.Get calls so far
    envs,     \* the InGoto / InJump entries of Envs.env
    result,   \* "running", "normal", "exit" or "fatal"
    payload,  \* what ScriptRun returns
    fault,    \* the panic that escaped ScriptRun
    ev,       \* what the last loop pass did
    ret,      \* what the last direct call of Arguments returned
    globals,  \* every global map created so far; an executor holds an index
    sent,     \* the Middler records handed to a goroutine that sends on Ch
    ch,       \* the places in `sent` of the records put on Ch, in the order of Ch
    procs,    \* the goroutines that call xpool.Get, each with its position
    serve,    \* xpool's serving flag, the eviction loops and the calls of Serve
    match     \* a call of model.Check: its arguments, its position and its result

vars ==
    <<frames, spaces, gotos, jumps, pool, gets, envs, result, payload, fault, ev, ret,
      globals, sent, ch, procs, serve, match>>

\* The mutable part of the program as one record, for the handlers.
Machine ==
    [frames |-> frames, spaces |-> spaces, gotos |-> gotos, jumps |-> jumps,
     pool |-> pool, gets |-> gets, envs |-> envs, globals |-> globals, sent |-> sent]

Top(m) == m.frames[Len(m.frames)]
SetTop(m, a) == [m EXCEPT !.frames[Len(m.frames)] = a]
Sp(m) == m.spaces[Top(m).sp]
SetSp(m, sp) == [m EXCEPT !.spaces[Top(m).sp] = sp]

\* What a handler hands back: the machine, its return value (<<>> for nil),
\* the panic it raised, and whether it is now inside codeRun of a child.
Done(m, val) == [m |-> m, val |-> val, p |-> NoPanic, child |-> FALSE]
Raise(m, p) == [m |-> m, val |-> <<>>, p |-> p, child |-> FALSE]
Enter(m, a2) ==
    [m |-> [m EXCEPT !.frames = Append(@, [a2 EXCEPT !.inExpr = Len(m.frames) + 1])],
     val |-> <<>>, p |-> NoPanic,
     child |-> TRUE]

\* ---------------------------------------------------------------- handlers
_NIL(m, ins, vs) == Done(SetTop(m, Revert(Top(m))), <<Nil>>)

_TRUE(m, ins, vs) == Done(SetTop(m, Revert(Top(m))), <<BoolV(TRUE)>>)

_Int(m, ins, vs) == Done(SetTop(m, Revert(Top(m))), <<IntV(ins.n)>>)

_Capture(m, ins, vs) ==
    Done(SetTop(m, Change([Top(m) EXCEPT !.BackTo = ArgsFlag, !.FromStack = FALSE])), <<>>)

_Bring(m, ins, vs) ==
    Done(SetTop(m, Change([Top(m) EXCEPT !.FromStack = TRUE])), <<>>)

_ScopeAdd(m, ins, vs) ==
    Done(SetTop(m, Change([Top(m) EXCEPT !.BackTo = ScopeFlag, !.FromStack = FALSE])), <<>>)

_NOP(m, ins, vs) == Done(SetTop(m, Revert(Top(m))), <<>>)

_PUSH(m, ins, vs) ==
    LET m1 == SetTop(m, Revert(Top(m)))
        r == push(Sp(m1).stack, vs)
    IN  IF Len(vs) = 0 THEN Done(m1, <<>>)
        ELSE IF r.err # "" THEN Raise(m1, PErr(r.err))
        ELSE Done(SetSp(m1, [Sp(m1) EXCEPT !.stack = r.v]), <<>>)

_POP(m, ins, vs) ==
    LET m1 == SetTop(m, Revert(Top(m)))
        r == pop(Sp(m1).stack)
    IN  IF r.err # "" THEN Raise(m1, PErr(r.err))
        ELSE Done(SetSp(m1, [Sp(m1) EXCEPT !.stack = r.v]), r.out)

_INPUT(m, ins, vs) ==
    LET m1 == SetTop(m, Revert(Top(m)))
        r == pick(Sp(m1).bufin, ins.n)
    IN  IF Len(Sp(m1).bufin) = 0 THEN Raise(m1, PErr("inputEmpty"))
        ELSE IF r.err # "" THEN Raise(m1, PErr(r.err))
        ELSE Done(SetSp(m1, [Sp(m1) EXCEPT !.bufin = r.v]), r.out)

_EXIT(m, ins, vs) ==
    LET m1 == SetTop(m, Revert(Top(m)))
    IN  IF Len(vs) = 1 THEN Raise(m1, Leave("EXIT", vs[1]))
        ELSE IF Len(vs) > 1 THEN Raise(m1, Leave("EXIT", <<"Anys", vs>>))
        ELSE Done(m1, <<>>)

_RETURN(m, ins, vs) ==
    LET m1 == SetTop(m, Revert(Top(m)))
    IN  IF Len(vs) = 0 THEN Raise(m1, PErr("indexRange"))
        ELSE Raise(m1, Leave("RETURN", vs[1]))

_BLOCK(m, ins, vs) ==
    LET m1 == SetTop(m, Revert(Top(m)))
    IN  Enter(m1, BlockNew(Top(m1), ins.body))

_IF(m, ins, vs) ==
    LET a1 == Revert(Top(m))
        m1 == SetTop(m, a1)
        a2 == [a1 EXCEPT !.Ifs = IF vs[1] = BoolV(TRUE) THEN "true" ELSE "false"]
        m2 == SetTop(m, a2)
    IN  IF Len(vs) = 0 THEN Raise(m1, PErr("indexRange"))
        ELSE IF vs[1][1] # "Bool" THEN Raise(m1, PErr("typeAssert"))
        ELSE IF a1.Ifs = "nil" THEN Raise(m1, PErr("nilDeref"))
        ELSE IF a2.Ifs = "true" THEN Enter(m2, BlockNew(a2, ins.body))
        ELSE Done(m2, <<>>)

_ELSE(m, ins, vs) ==
    LET a1 == Revert(Top(m))
        m1 == SetTop(m, a1)
    IN  IF a1.Ifs = "nil" THEN Raise(m1, PErr("nilDeref"))
        ELSE IF a1.Ifs = "false" THEN Enter(m1, BlockNew(a1, ins.body))
        ELSE Done(SetTop(m1, [a1 EXCEPT !.Ifs = "nil"]), <<>>)

\* ------------------------------------------------------- SWITCH and CASE
\* Go's v == target on two values of type any: [eq, err].
Equal(v, t) ==
    IF v[1] = "Anys" /\ t[1] = "Anys" THEN [eq |-> FALSE, err |-> "uncomparable"]
    ELSE [eq |-> v = t, err |-> ""]

\* *a.switchX.through, where the pointer is not nil.
Fallthrough(m, a) == m.frames[a.switchX.through].through

\* a.CaseThrough(v)
CaseThrough(m, a, v) == [m EXCEPT !.frames[a.switchX.through].through = v]

_SWITCH(m, ins, vs) ==
    LET m1 == SetTop(m, Revert(Top(m)))
    IN  IF vs[2][1] # "Anys" THEN Raise(m1, PErr("typeAssert"))
        ELSE Enter(m1, SwitchNew(Top(m1), Len(m1.frames) + 1, ins.body, vs[1], vs[2][2]))

\* The body of a CASE is entered: CaseThrough(false); codeRun(a.CaseNew(code)).
CaseEnter(m, ins) ==
    IF Top(m).switchX.through = 0 THEN Raise(m, PErr("nilDeref"))
    ELSE Enter(CaseThrough(m, Top(m), FALSE), CaseNew(Top(m), ins.body))

\* The end of _CASE: return nil after a FALLTHROUGH, else panic(_BREAK_).
CaseLeave(m) ==
    IF Top(m).switchX.through = 0 THEN Raise(m, PErr("nilDeref"))
    ELSE IF Fallthrough(m, Top(m)) THEN Done(m, <<>>)
    ELSE Raise(m, Cease("BREAK"))

_CASE(m, ins, vs) ==
    LET a1 == Revert(Top(m))
        m1 == SetTop(m, a1)
        c == Equal(Head(a1.switchX.cases), a1.switchX.target)
        m2 == SetTop(m, [a1 EXCEPT !.switchX.cases = Tail(@)])
    IN  IF a1.switchX.nil THEN Raise(m1, PErr("nilDeref"))
        ELSE IF a1.switchX.cases = <<>> THEN Raise(m1, PErr("indexRange"))
        ELSE IF c.err # "" THEN Raise(m2, PErr(c.err))
        ELSE IF c.eq THEN CaseEnter(m2, ins)
        ELSE IF a1.switchX.through = 0 THEN Raise(m2, PErr("nilDeref"))
        ELSE IF Fallthrough(m2, a1) THEN CaseEnter(m2, ins)
        ELSE CaseLeave(m2)

_DEFAULT(m, ins, vs) ==
    LET m1 == SetTop(m, Revert(Top(m)))
    IN  IF Top(m1).switchX.nil THEN Raise(m1, PErr("nilDeref"))
        ELSE Enter(m1, CaseNew(Top(m1), ins.body))

\* a.SwitchReset()
SwitchReset(a) ==
    [a EXCEPT !.switchX = [nil |-> FALSE, target |-> Nil, cases |-> <<>>, through |-> 0]]

_FALLTHROUGH(m, ins, vs) ==
    LET m1 == SetTop(m, Revert(Top(m)))
    IN  IF Top(m1).switchX.nil \/ Top(m1).switchX.through = 0
        THEN Raise(m1, PErr("nilDeref"))
        ELSE Done(CaseThrough(m1, Top(m1), TRUE), <<>>)

\* _CONTINUE and _BREAK, which differ in the cease they raise.
Ceasing(m, vs, kind) ==
    LET m1 == SetTop(m, Revert(Top(m)))
    IN  IF Len(vs) > 1 THEN Raise(m1, PErr("neverToHere"))
        ELSE IF Len(vs) = 1 /\ vs[1][1] # "Bool" THEN Raise(m1, PErr("typeAssert"))
        ELSE IF Len(vs) = 1 /\ vs[1] # BoolV(TRUE) THEN Done(m1, <<>>)
        ELSE Raise(m1, Cease(kind))

_CONTINUE(m, ins, vs) == Ceasing(m, vs, "CONTINUE")

_BREAK(m, ins, vs) == Ceasing(m, vs, "BREAK")

\* ------------------------------------------------------------------- EACH
\* The executor of one iteration: a.LoopNew(code).BlockNew(code), with the
\* loop variables LoopSet writes; LoopNew's countx is a.jumpNew().
\* An executor for the body of EACH that kept the GOTO counter.
LoopNewGotos(a, code, lv) ==
    [Actuator("LoopNew", "execPart", a.ID, code, a.sp, a.gotos, a.jumps)
        EXCEPT !.loopVar = lv, !.global = a.global]

LoopNew(a, code, lv) ==
    [Actuator("LoopNew", "execPart", a.ID, code, a.sp, FALSE, a.jumps)
        EXCEPT !.loopVar = lv, !.global = a.global]

\* loopVar after LoopSet(k, v, data, size) for element i (from 1) of data.
LoopSet(data, i) == <<data[2][i], GoInt(i - 1), data, GoInt(Len(data[2]))>>

\* sliceEach's `if _max < n { _max = n }` that adds up instead.
LoopJumps_Sum(orig, max, n) == max + (n - orig)

\* sliceEach's `if _max < n { _max = n }`: the new _max.
LoopJumps(orig, max, n) == IF max < n THEN n ELSE max

\* The locals of sliceEach as iteration i begins, with js the JUMPs each
\* finished iteration has made.
EachLocals(data, i, orig, max, js) ==
    [op |-> "EACH", data |-> data, i |-> i, orig |-> orig, max |-> max, js |-> js,
     ended |-> FALSE]

\* One turn of sliceEach's loop: iteration i begins on m.
sliceEachTurn(m, code, h) ==
    Enter([SetTop(m, [Top(m) EXCEPT !.h = h]) EXCEPT !.jumps = h.orig],
          LoopNew(Top(m), code, LoopSet(h.data, h.i)))

\* sliceEach after its loop: a.SetJumps(_max).
sliceEachEnd(m, h) ==
    Done([SetTop(m, [Top(m) EXCEPT !.h = [h EXCEPT !.ended = TRUE]])
            EXCEPT !.jumps = h.max], <<>>)

\* sliceEach once execPart of iteration h.i has returned x.
sliceEachNext(m, code, h, x) ==
    LET h1 == [h EXCEPT !.max = LoopJumps(h.orig, h.max, m.jumps),
                        !.js = Append(@, m.jumps - h.orig)]
    IN  IF x.Kind = "BREAK" \/ h.i = Len(h.data[2]) THEN sliceEachEnd(m, h1)
        ELSE sliceEachTurn(m, code, [h1 EXCEPT !.i = @ + 1])

_EACH(m, ins, vs) ==
    LET m1 == SetTop(m, Revert(Top(m)))
        h == EachLocals(vs[1], 1, m1.jumps, m1.jumps, <<>>)
    IN  IF ~Top(m1).jumps THEN Raise(m1, PErr("nilDeref"))
        ELSE IF vs[1][1] \notin {"Anys", "Ints"} THEN Raise(m1, PErr("neverToHere"))
        ELSE IF vs[1][2] = <<>> THEN sliceEachEnd(m1, h)
        ELSE sliceEachTurn(m1, ins.body, h)

\* a.LoopItem(i): inside an expression (only an executor of ExprNew has a
\* counted inExpr) the value is returned, else it goes to the args region.
\* a.InExpr(), a.ExprIn() and a.ExprOut() on the counter a.inExpr addresses.
InExpr(m, a) == m.frames[a.inExpr].depth > 0
ExprIn(m, a) == [m EXCEPT !.frames[a.inExpr].depth = @ + 1]
ExprOut(m, a) == [m EXCEPT !.frames[a.inExpr].depth = @ - 1]

\* scope.ScopeItem(i) on the local scope of executor a: a negative index
\* counts from the end, and an index outside the scope panics.
ScopeItem(a, i) ==
    LET k == IF i < 0 THEN i + Len(a.scope) ELSE i
    IN  IF k < 0 \/ k >= Len(a.scope) THEN [err |-> "indexRange", v |-> Nil]
        ELSE [err |-> "", v |-> a.scope[k + 1]]

_ScopeVal(m, ins, vs) ==
    LET m1 == SetTop(m, Revert(Top(m)))
        r == ScopeItem(Top(m1), ins.n)
    IN  IF r.err # "" THEN Raise(m1, PErr(r.err))
        ELSE IF InExpr(m1, Top(m1)) THEN Done(m1, <<r.v>>)
        ELSE Done(SetSp(m1, [Sp(m1) EXCEPT !.args = put(@, <<r.v>>)]), <<>>)

_LoopVal(m, ins, vs) ==
    LET m1 == SetTop(m, Revert(Top(m)))
    IN  IF Top(m1).loopVar = <<>> THEN Raise(m1, PErr("nilDeref"))
        ELSE IF InExpr(m1, Top(m1)) THEN Done(m1, <<Top(m1).loopVar[ins.n + 1]>>)
        ELSE Done(SetSp(m1, [Sp(m1) EXCEPT !.args = put(@, <<Top(m1).loopVar[ins.n + 1]>>)]),
                  <<>>)

\* rangeSlice(start, step, size)
rangeSlice(start, step, size) == Ints([i \in 1..size |-> IntV(start + (i - 1) * step)])

_RANGE(m, ins, vs) ==
    LET m1 == SetTop(m, Revert(Top(m)))
    IN  IF vs[1][1] # "Int" THEN Raise(m1, PErr("neverToHere"))
        ELSE IF vs[2][1] # "Int" THEN Raise(m1, PErr("typeAssert"))
        ELSE IF ins.n = 0 THEN Raise(m1, PErr("indexRange"))
        ELSE Done(m1, <<rangeSlice(vs[1][2], vs[2][2], ins.n)>>)

\* --------------------------------------------------------- MAP and FILTER
\* The executor of one iteration: a.ScopeNew(code).BlockNew(code), on the
\* spaces sp that scopeNew has made.  ScopeNew leaves loopVar and countx nil.
ScopeNew(a, code, sp) ==
    [Actuator("ScopeNew", "execScope", a.ID, code, sp, FALSE, FALSE)
        EXCEPT !.global = a.global]

\* The locals of mapSlice / filterSlice as iteration i begins.
MapLocals(op, data, i, buf) == [op |-> op, data |-> data, i |-> i, buf |-> buf]

\* One turn of the loop of mapSlice / filterSlice: a2.LoopSet writes through
\* the executor's loopVar pointer.
mapSliceTurn(m, a2, h) ==
    IF a2.loopVar = <<>> THEN Raise(m, PErr("nilDeref"))
    ELSE Enter(SetTop(m, [Top(m) EXCEPT !.h = h]),
               [a2 EXCEPT !.loopVar = LoopSet(h.data, h.i)])

\* _MAP and _FILTER up to the first turn of the loop.
Mapping(m, ins, vs, op) ==
    LET m1 == SetTop(m, Revert(Top(m)))
        m2 == [m1 EXCEPT !.spaces = Append(@, scopeNew(Sp(m1)))]
        a2 == ScopeNew(Top(m2), ins.body, Len(m2.spaces))
        r == push(<<>>, Tail(vs))
        m3 == [m2 EXCEPT !.spaces[a2.sp].stack = r.v]
    IN  IF vs = <<>> THEN Raise(m2, PErr("indexRange"))
        ELSE IF Len(vs) > 1 /\ r.err # "" THEN Raise(m2, PErr(r.err))
        ELSE IF vs[1][1] \notin {"Anys", "Ints"} THEN Raise(m3, PErr("neverToHere"))
        ELSE IF vs[1][2] = <<>> THEN Done(m3, <<Anys(<<>>)>>)
        ELSE mapSliceTurn(m3, a2, MapLocals(op, vs[1], 1, <<>>))

_MAP(m, ins, vs) == Mapping(m, ins, vs, "MAP")

_FILTER(m, ins, vs) == Mapping(m, ins, vs, "FILTER")

\* mapSlice / filterSlice once execScope of iteration h.i has returned x,
\* the Leave it kept: x.Data for a RETURN, nil after a normal end.
mapSliceNext(m, h, x) ==
    LET v == IF x.e = "Leave" THEN x.Data ELSE Nil
        buf == IF h.op = "MAP" THEN (IF v = Nil THEN h.buf ELSE Append(h.buf, v))
               ELSE IF v = BoolV(TRUE) THEN Append(h.buf, h.data[2][h.i]) ELSE h.buf
        a2 == ScopeNew(Top(m), Code(Top(m).Script).body, Len(m.spaces))
    IN  IF h.op = "FILTER" /\ v[1] # "Bool" THEN Raise(m, PErr("typeAssert"))
        ELSE IF h.i = Len(h.data[2]) THEN Done(m, <<Anys(buf)>>)
        ELSE mapSliceTurn(m, a2, MapLocals(h.op, h.data, h.i + 1, buf))

\* ------------------------------------------------- globals and the buffers
\* a.GlobalValue(i): a missing key reads as nil.
GlobalValue(m, a, i) ==
    IF i \in DOMAIN m.globals[a.global] THEN m.globals[a.global][i] ELSE Nil

\* a.GlobalSet(i, v)
GlobalSet(m, a, i, v) == [m EXCEPT !.globals[a.global] = (i :> v) @@ @]

_VAR(m, ins, vs) ==
    LET m1 == SetTop(m, Revert(Top(m)))
    IN  Done(m1, <<GlobalValue(m1, Top(m1), ins.n)>>)

\* _SETVAR stores its parameter `data`, the instruction's data, which the
\* picker instArg1 leaves nil; the argument vs is not used.
_SETVAR(m, ins, vs) ==
    LET m1 == SetTop(m, Revert(Top(m)))
    IN  Done(GlobalSet(m1, Top(m1), ins.n, Nil), <<>>)

_OUTPUT(m, ins, vs) ==
    LET m1 == SetTop(m, Revert(Top(m)))
    IN  IF Len(vs) > 0 THEN Done(SetSp(m1, [Sp(m1) EXCEPT !.bufout = @ \o vs]), <<>>)
        ELSE Done(m1, <<>>)

\* ibase.Middler{ID, N, Code, Data}
Middler(id, n, code, data) == [ID |-> id, N |-> n, Code |-> code, Data |-> data]

\* _BUFDUMP: the record goes to a goroutine of its own that sends it on Ch.
_BUFDUMP(m, ins, vs) ==
    LET m1 == SetTop(m, Revert(Top(m)))
        x == Middler(Top(m1).ID, ins.n, Top(m1).Script.source, Sp(m1).bufout)
    IN  IF Len(Sp(m1).bufout) = 0 THEN Done(m1, <<>>)
        ELSE Done([SetSp(m1, [Sp(m1) EXCEPT !.bufout = <<>>]) EXCEPT !.sent = Append(@, x)],
                  <<>>)

\* -------------------------------------------------------------- script pool
\* The scripts the chain holds under each key.  xpool.Get leaves the fetch
\* from the chain open and yields nil, the empty script, as key 0 does here;
\* the other keys stand for a chain that holds scripts.
Fetch(k) ==
    CASE k = 1 -> <<I_TRUE>>
      [] k = 2 -> <<I_GOTO(2)>>
      [] k = 3 -> <<I_JUMP(3)>>
      [] k = 4 -> <<I_JUMP(0)>>
      [] k = 5 -> <<I_GOTO(0)>>
      [] k = 6 -> <<I_BLOCK(<<>>)>>
      [] k = 7 -> <<I_Capture, I_GOTO(0)>>
      [] k = 8 -> <<I_EXIT>>
      [] k = 9 -> <<I_BLOCK(<<I_EXIT, I_NOP>>), I_NOP>>
      [] k = 10 -> <<I_CONTINUE>>
      [] k = 11 -> <<I_BREAK>>
      [] k = 12 -> <<I_JUMP(10)>>
      [] k = 13 -> <<I_EACH(<<I_JUMP(10)>>)>>
      [] k = 14 -> <<I_SETVAR(0)>>
      [] k = 15 -> <<I_BUFDUMP(1)>>
      [] k = 16 -> <<I_OUTPUT>>
      [] k = 17 -> <<I_ENV(EnvInGoto)>>
      [] k = 18 -> <<I_ENV(EnvInJump)>>
      [] k = 19 -> <<I_INPUT(1)>>
      [] OTHER -> <<>>

\* xpool.Get(h, n, i), the key triple folded into one number:
\* [m: the machine afterwards, code].
xpoolGet(m, k) ==
    IF k \in DOMAIN m.pool
    THEN [m |-> [m EXCEPT !.gets = @ + 1], code |-> m.pool[k]]
    ELSE [m |-> [m EXCEPT !.gets = @ + 1, !.pool = (k :> Fetch(k)) @@ @],
          code |-> Fetch(k)]

\* Envs.EnvItem(n): the entry n of the env map, nil where it has none.
EnvItem(m, n) ==
    CASE n = EnvInGoto -> IF m.envs.InGoto THEN BoolV(TRUE) ELSE Nil
      [] n = EnvInJump -> IF m.envs.InJump THEN BoolV(TRUE) ELSE Nil
      [] OTHER -> Nil

\* _ENV for the entries that have no getter in __envGetter.
_ENV(m, ins, vs) == Done(SetTop(m, Revert(Top(m))), <<EnvItem(m, ins.n)>>)

\* countx.IncrGoto that compares with > instead of >=.
IncrGoto_Late(m) ==
    IF ~Top(m).gotos THEN [m |-> m, err |-> "nilDeref"]
    ELSE IF m.gotos > GotoMax THEN [m |-> m, err |-> "gotosOver"]
    ELSE [m |-> [m EXCEPT !.gotos = @ + 1], err |-> ""]

\* countx.IncrGoto through the executor's countx: [m, err].
IncrGoto(m) ==
    IF ~Top(m).gotos THEN [m |-> m, err |-> "nilDeref"]
    ELSE IF m.gotos >= GotoMax THEN [m |-> m, err |-> "gotosOver"]
    ELSE [m |-> [m EXCEPT !.gotos = @ + 1], err |-> ""]

\* countx.IncrJump: [m, err].
IncrJump(m) ==
    IF ~Top(m).jumps THEN [m |-> m, err |-> "nilDeref"]
    ELSE IF m.jumps >= JumpMax THEN [m |-> m, err |-> "jumpsOver"]
    ELSE [m |-> [m EXCEPT !.jumps = @ + 1], err |-> ""]

\* A _GOTO that leaves a2.GotoIn() out.
_GOTO_NoFlag(m, ins, vs) ==
    LET m1 == SetTop(m, Revert(Top(m)))
        c == IncrGoto(m1)
        g == xpoolGet(c.m, ins.n)
        m2 == [g.m EXCEPT !.spaces = Append(@, scopeNew(Sp(g.m))),
                          !.globals = Append(@, <<>>)]
        a2 == ScriptNew(Top(m2), ins.n, g.code, Len(m2.spaces), Len(m2.globals))
        r == push(<<>>, vs)
        m3 == [m2 EXCEPT !.spaces[a2.sp].stack = r.v]
    IN  IF c.err # "" THEN Raise(m1, PErr(c.err))
        ELSE IF Len(vs) > 0 /\ r.err # "" THEN Raise(m2, PErr(r.err))
        ELSE Enter(m3, a2)

_GOTO(m, ins, vs) ==
    LET m1 == SetTop(m, Revert(Top(m)))
        c == IncrGoto(m1)
        g == xpoolGet(c.m, ins.n)
        m2 == [g.m EXCEPT !.spaces = Append(@, scopeNew(Sp(g.m))),
                          !.globals = Append(@, <<>>)]
        a2 == ScriptNew(Top(m2), ins.n, g.code, Len(m2.spaces), Len(m2.globals))
        r == push(<<>>, vs)
        m3 == [m2 EXCEPT !.spaces[a2.sp].stack = r.v, !.envs.InGoto = TRUE]
    IN  IF c.err # "" THEN Raise(m1, PErr(c.err))
        ELSE IF Len(vs) > 0 /\ r.err # "" THEN Raise(m2, PErr(r.err))
        ELSE Enter(m3, a2)

_JUMP(m, ins, vs) ==
    LET m1 == SetTop(m, Revert(Top(m)))
        c == IncrJump(m1)
        g == xpoolGet(c.m, ins.n)
        a2 == EmbedNew(Top(g.m), ins.n, g.code)
    IN  IF c.err # "" THEN Raise(m1, PErr(c.err))
        ELSE Enter([g.m EXCEPT !.envs.InJump = TRUE], a2)

\* ---------------------------------------------------------- package model
\* A script is matched as the sequence of its instructions from the current
\* position on; s[n:] drops the instructions that the first n bytes hold.
RECURSIVE Drop(_, _)
Drop(s, n) ==
    IF n <= 0 \/ s = <<>> THEN s ELSE Drop(Tail(s), n - Size(Head(s)))

\* The structured instructions, whose data is code.
BlockOps == {"MAP", "FILTER", "IF", "ELSE", "SWITCH", "CASE", "DEFAULT", "EACH",
             "BLOCK", "Expr"}
\* The instructions whose one byte (or varint) is their data.
DataOps == {"Uint8", "Uint63"}
\* The instructions with one aux byte and no data.
ArgOps == {"INPUT", "LoopVal", "ScopeVal", "VAR", "SETVAR", "BUFDUMP", "RANGE", "TypeIs",
           "ValPick", "Wildlist", "ENV"}

\* instor.Raw: Args and Data of an instruction, "nil" where it has none.
RawArgs(ins) ==
    CASE ins.op \in ArgOps -> <<ins.n>>
      [] ins.op \in BlockOps -> <<SrcLen(ins.body)>>
      [] OTHER -> "nil"
RawData(ins) ==
    CASE ins.op \in DataOps -> <<"bytes", ins.n>>
      [] ins.op \in BlockOps -> <<"code", ins.body>>
      [] OTHER -> "nil"

\* The maps of the handlers as the init functions of the package write
\* them: the key "default" stands for defaultIndex.
ProcessAssigned ==
    [k \in {"ValPick", "Wildcard", "TypeIs", "WildLump", "Wildlist", "default"}
            \cup BlockOps |->
        CASE k = "ValPick" -> "_ValPick"
          [] k = "Wildlist" -> "_Wildlist"
          [] k = "Wildcard" -> "_Wildcard"
          [] k = "TypeIs" -> "_TypeIs"
          [] k = "WildLump" -> "_WildLump"
          [] k = "default" -> "_Default"
          [] OTHER -> "_BlockCheck"]

\* What the program holds: `var __Process map[int]Modeler` is never made, so
\* it is the nil map (the first assignment of init panics).
__Process == [k \in {} |-> ""]

\* modeler(k) over the map P; "nil" is the nil Modeler.
modeler(P, k) ==
    IF k \in DOMAIN P THEN P[k]
    ELSE IF "default" \in DOMAIN P THEN P["default"] ELSE "nil"

\* The State of a match, what a Modeler returns (p is the panic it raises),
\* and what Check returns.
NewState == [last |-> <<>>, buffer |-> <<>>]
Tested(n1, n2, ok, t) == [n1 |-> n1, n2 |-> n2, ok |-> ok, t |-> t, p |-> ""]
TestPanic(t, e) == [n1 |-> 0, n2 |-> 0, ok |-> FALSE, t |-> t, p |-> e]
Checked(data, ok, p) == [data |-> data, ok |-> ok, p |-> p]

argsEqual(aa, zz) == zz = "nil" \/ aa = zz
dataEqual(target, script) == script = "nil" \/ script = target

\* test(a, z, flag, ver) with flag 0.
test(t, a, z) ==
    IF a.op # z.op THEN Tested(0, Size(z), FALSE, t)
    ELSE Tested(Size(a), Size(z),
                argsEqual(RawArgs(a), RawArgs(z)) /\ dataEqual(RawData(a), RawData(z)), t)

\* instor.Raw(s) of an empty s is an index out of range.
_Default(t, s, m) ==
    IF s = <<>> THEN TestPanic(t, "indexRange") ELSE test(t, Head(s), Head(m))

_Wildcard(t, s, m) ==
    IF s = <<>> THEN TestPanic(t, "indexRange")
    ELSE Tested(Size(Head(s)), Size(Head(m)), TRUE, t)

\* _Wildlist: `b0 := s[size:]` is the source after its first size bytes, and
\* ins1.Data is the nil slice that instArg1 leaves, which equals the empty
\* slice only; ins1.Size is 2.
_Wildlist(t, s, m) ==
    IF SrcLen(s) < Head(m).n THEN TestPanic(t, "sliceBounds")
    ELSE IF Drop(s, Head(m).n) = <<>> THEN Tested(Head(m).n, Size(Head(m)), TRUE, t)
    ELSE Tested(0, Size(Head(m)), TRUE, t)

\* The opcodes of icode that a capture can deliver.
Opcode(op) ==
    CASE op = "NIL" -> 0
      [] op = "TRUE" -> 1
      [] op = "Uint8" -> 4
      [] op = "Uint63" -> 6
      [] OTHER -> 255

\* __typeChecks: whether the opcode op is of the type t of !{Type}.
\* The types are instor.TypeisBool (0), TypeisInt (1) and TypeisNumber (11).
TypeIds == {0, 1, 11}
typeCheck(t, op) ==
    CASE t = 0 -> op \in {"TRUE", "FALSE"}
      [] t \in {1, 11} -> op \in {"Uint8n", "Uint8", "Uint63n", "Uint63"}

_TypeIs(t, s, m) ==
    IF Head(m).n \notin TypeIds THEN TestPanic(t, "typeBadnum")
    ELSE IF s = <<>> THEN TestPanic(t, "indexRange")
    ELSE Tested(Size(Head(s)), Size(Head(m)), typeCheck(Head(m).n, Head(s).op), t)

\* instor.Get: the parsed Args and Data of an instruction.
GetArgs(ins) ==
    CASE ins.op \in ArgOps -> <<GoInt(ins.n)>>
      [] ins.op \in BlockOps -> <<GoInt(SrcLen(ins.body))>>
      [] OTHER -> <<>>
GetData(ins) ==
    CASE ins.op \in DataOps -> IntV(ins.n)
      [] ins.op \in BlockOps -> <<"code", ins.body>>
      [] OTHER -> Nil

\* The bits of an instpick: forCode, forArg(n), withAll; forData compares
\* flag & 64 with 1 and is true for every flag.
Bit(flag, k) == (flag \div (2 ^ k)) % 2 = 1
forCode(flag) == Bit(flag, 0)
forArg(flag, n) == Bit(flag, n)
forData(flag) == ((flag \div 64) % 2) * 64 # 1
withAll(flag) == Bit(flag, 7)

RECURSIVE pickArgs(_, _, _)
\* The loop of instValue over the arg bits 1..5, from bit a on.
pickArgs(x, flag, a) ==
    IF a > 5 THEN <<>>
    ELSE (IF forArg(flag, a) THEN <<GetArgs(x)[a]>> ELSE <<>>) \o pickArgs(x, flag, a + 1)

\* Whether instValue reads an arg that the instruction does not have.
pickOver(x, flag) == \E a \in 1..5 : forArg(flag, a) /\ a > Len(GetArgs(x))

instValue(x, flag) ==
    IF withAll(flag) THEN <<GoInt(Opcode(x.op)), Anys(GetArgs(x)), GetData(x)>>
    ELSE (IF forCode(flag) THEN <<GoInt(Opcode(x.op))>> ELSE <<>>)
         \o pickArgs(x, flag, 1)
         \o (IF forData(flag) THEN <<GetData(x)>> ELSE <<>>)

\* instor.Get(t.Last()) of the empty slice is an index out of range.
_ValPick(t, s, m) ==
    IF t.last = <<>> THEN TestPanic(t, "indexRange")
    ELSE IF ~withAll(Head(m).n) /\ pickOver(Head(t.last), Head(m).n)
    THEN TestPanic(t, "indexRange")
    ELSE Tested(0, Size(Head(m)), TRUE,
                [t EXCEPT !.buffer = @ \o instValue(Head(t.last), Head(m).n)])

\* _BlockCheck after Check has returned c for the two blocks.
BlockChecked(t, s, m, c) ==
    IF c.p # "" THEN TestPanic(t, c.p)
    ELSE Tested(Size(Head(s)), Size(Head(m)), c.ok,
                [t EXCEPT !.buffer = @ \o c.data])

\* The maps of the testers of a `...` segment as init writes them, and the
\* nil map that the program holds.
LumpAssigned ==
    [k \in {"ValPick", "Wildcard", "TypeIs", "WildLump", "default"} \cup BlockOps |->
        CASE k = "ValPick" -> "_lumpValPick"
          [] k = "Wildcard" -> "_lumpWildcard"
          [] k = "TypeIs" -> "_lumpTypeIs"
          [] k = "WildLump" -> "_lumpWildLump"
          [] k = "default" -> "_lumpDefault"
          [] OTHER -> "_lumpBlockCheck"]
__lumpProcess == [k \in {} |-> ""]
\* Both maps of the package.
Maps(process, lump) == [process |-> process, lump |-> lump]

RECURSIVE lumpBytes(_)
\* The instructions of m before the first `...`.
lumpBytes(m) ==
    IF m = <<>> \/ Head(m).op = "WildLump" THEN <<>>
    ELSE <<Head(m)>> \o lumpBytes(Tail(m))

RECURSIVE lumpOne(_, _, _)
RECURSIVE lumpAll(_, _, _, _)
RECURSIVE lumpBlockTest(_, _, _)

\* _WildLump hands lumpBytes the model from the `...` itself on.
LumpSkipped(s, m, r) ==
    IF r.p # "" THEN TestPanic(NewState, r.p)
    ELSE Tested(r.size, Size(Head(m)), r.ok, NewState)
_WildLump(P, s, m) == LumpSkipped(s, m, lumpAll(P, lumpBytes(m), s, 0))

\* _lumpBlockCheck after lumpBlockTest returned c.
LumpBlockChecked(s, m, c) ==
    IF c.p # "" THEN TestPanic(NewState, c.p)
    ELSE Tested(Size(Head(s)), Size(Head(m)), c.ok, NewState)

\* tester(c)(m, s); the testers that pass a nil State to _Default
\* dereference it for t.ver.
LumpTested(P, f, m, s) ==
    CASE f = "nil" -> TestPanic(NewState, "nilDeref")
      [] f = "_lumpValPick" -> Tested(0, Size(Head(m)), TRUE, NewState)
      [] f = "_lumpWildcard" -> _Wildcard(NewState, s, m)
      [] f = "_lumpTypeIs" -> _TypeIs(NewState, s, m)
      [] f = "_lumpWildLump" -> _WildLump(P, s, m)
      [] f = "_lumpDefault" ->
            IF s = <<>> THEN TestPanic(NewState, "indexRange")
            ELSE TestPanic(NewState, "nilDeref")
      [] f = "_lumpBlockCheck" ->
            IF s = <<>> THEN TestPanic(NewState, "indexRange")
            ELSE IF Head(s).op # Head(m).op
            THEN Tested(Size(Head(s)), Size(Head(m)), FALSE, NewState)
            ELSE LumpBlockChecked(s, m, lumpBlockTest(P, Head(s).body, Head(m).body))

\* What lumpOne, lumpAll and lumpBlockTest return; p is the panic.
Lumped(size, ok, p) == [size |-> size, ok |-> ok, p |-> p]

LumpBlockTurned(P, r, s2, m2) ==
    IF r.p # "" THEN Lumped(0, FALSE, r.p)
    ELSE IF ~r.ok \/ s2 = <<>> THEN Lumped(0, r.ok /\ m2 = <<>>, "")
    ELSE lumpBlockTest(P, s2, m2)
LumpBlockTurn(P, r, s, m) == LumpBlockTurned(P, r, Drop(s, r.n1), Drop(m, r.n2))
lumpBlockTest(P, s, m) ==
    IF m = <<>> THEN Lumped(0, s = <<>>, "")
    ELSE LumpBlockTurn(P, LumpTested(P, modeler(P.lump, Head(m).op), m, s), s, m)

LumpOneTurned(P, r, s2, m2) ==
    IF r.p # "" THEN Lumped(0, FALSE, r.p)
    ELSE IF s2 = <<>>
    THEN (IF r.ok /\ m2 = <<>> THEN Lumped(0, TRUE, "") ELSE Lumped(0, FALSE, "errLump"))
    ELSE IF ~r.ok THEN Lumped(0, FALSE, "")
    ELSE lumpOne(P, m2, s2)
LumpOneTurn(P, r, m, s) == LumpOneTurned(P, r, Drop(s, r.n1), Drop(m, r.n2))
\* One round of the search: the segment m against the source from s on.
lumpOne(P, m, s) ==
    IF m = <<>> THEN Lumped(0, TRUE, "")
    ELSE LumpOneTurn(P, LumpTested(P, modeler(P.lump, Head(m).op), m, s), m, s)

\* lumpAll after lumpOne returned r; size is what was skipped so far.
LumpAllTurn(P, r, m, s, size) ==
    IF r.p = "errLump" THEN Lumped(0, FALSE, "")
    ELSE IF r.p # "" THEN Lumped(0, FALSE, r.p)
    ELSE IF r.ok THEN Lumped(size, TRUE, "")
    ELSE IF s = <<>> THEN Lumped(0, FALSE, "indexRange")
    ELSE lumpAll(P, m, Tail(s), size + Size(Head(s)))
lumpAll(P, m, s, size) == LumpAllTurn(P, lumpOne(P, m, s), m, s, size)

RECURSIVE CheckLoop(_, _, _, _)

_BlockCheck(P, t, s, m) ==
    IF s = <<>> THEN TestPanic(t, "indexRange")
    ELSE IF Head(s).op # Head(m).op
    THEN Tested(Size(Head(s)), Size(Head(m)), FALSE, t)
    ELSE BlockChecked(t, s, m, CheckLoop(P, NewState, Head(s).body, Head(m).body))

\* modeler(c)(_t, s, m)
Modeled(P, f, t, s, m) ==
    CASE f = "nil" -> TestPanic(t, "nilDeref")
      [] f = "_Default" -> _Default(t, s, m)
      [] f = "_Wildcard" -> _Wildcard(t, s, m)
      [] f = "_TypeIs" -> _TypeIs(t, s, m)
      [] f = "_ValPick" -> _ValPick(t, s, m)
      [] f = "_Wildlist" -> _Wildlist(t, s, m)
      [] f = "_BlockCheck" -> _BlockCheck(P, t, s, m)
      [] f = "_WildLump" -> [_WildLump(P, s, m) EXCEPT !.t = t]

\* The end of one turn of Check's loop: r is what the Modeler returned, s2
\* and m2 the scripts after Next(n1) and Next(n2).
CheckTurned(P, r, s, s2, m2) ==
    IF ~r.ok \/ s2 = <<>> THEN Checked(r.t.buffer, r.ok /\ m2 = <<>>, "")
    ELSE CheckLoop(P, [r.t EXCEPT !.last = s], s2, m2)

CheckTurn(P, r, s, m) ==
    IF r.p # "" THEN Checked(r.t.buffer, FALSE, r.p)
    ELSE CheckTurned(P, r, s, Drop(s, r.n1), Drop(m, r.n2))

CheckLoop(P, t, s, m) ==
    IF m = <<>> THEN Checked(t.buffer, s = <<>>, "")
    ELSE CheckTurn(P, Modeled(P, modeler(P.process, Head(m).op), t, s, m), s, m)

\* Check(s, m, ver) with the maps P.
CheckWith(P, s, m) == CheckLoop(P, NewState, s, m)
Check(s, m) == CheckWith(Maps(__Process, __lumpProcess), s, m)
\* Check with the maps that the init functions mean to fill.
CheckMade(s, m) == CheckWith(Maps(ProcessAssigned, LumpAssigned), s, m)

\* ------------------------------------------------------------- expressions
\* The placeholder handler of the operator opcodes Mul, Div, Add, Sub.
accessPanic(m, ins, vs) == Raise(m, PErr("accessError"))

\* The executor of an expression: it shares the spaces, the loop variables
\* and the globals of a, and has no counters.
ExprNew(a, code) ==
    [Actuator("ExprNew", "Calc", a.ID, code, a.sp, FALSE, FALSE)
        EXCEPT !.loopVar = a.loopVar, !.global = a.global, !.inExpr = a.inExpr]

\* The instructions of an expression that return at once; the expressions of
\* the model hold no others.
ExprOps == {"Uint8", "NIL", "TRUE", "LoopVal", "ScopeVal", "Mul", "Div", "Add", "Sub", "GOTO", "JUMP"}
\* The code that exprNext returns at the end of the expression.
ExprEnd == "exprEnd"

\* __InstSet[c].Call for the instructions of an expression.
\* _GOTO and _JUMP called by an expression's executor: a.IncrGoto() or
\* a.IncrJump() comes before the pool is asked, and ExprNew gives that
\* executor no counters, so the call ends there.
ExprCounted(m, c) == Raise(SetTop(m, Revert(Top(m))), PErr(c.err))

ExprCall(op, m, ins, vs) ==
    CASE op = "Uint8" -> _Int(m, ins, vs)
      [] op = "NIL" -> _NIL(m, ins, vs)
      [] op = "TRUE" -> _TRUE(m, ins, vs)
      [] op = "LoopVal" -> _LoopVal(m, ins, vs)
      [] op = "ScopeVal" -> _ScopeVal(m, ins, vs)
      [] op = "GOTO" -> ExprCounted(m, IncrGoto(m))
      [] op = "JUMP" -> ExprCounted(m, IncrJump(m))
      [] op \in {"Mul", "Div", "Add", "Sub"} -> accessPanic(m, ins, vs)

\* instCall of the expression's executor, the top of m: ins is its current
\* instruction and ar what Arguments collected for it.
ExprCalled(m, ins, ar) ==
    IF ar.err # ""
    THEN Raise(SetSp(SetTop(m, [Top(m) EXCEPT !.s = ScriptNext(@, Size(ins))]), ar.sp),
               PErr(ar.err))
    ELSE ExprCall(ins.op,
                  SetSp(SetTop(m, [Top(m) EXCEPT !.s = ScriptNext(@, Size(ins))]), ar.sp),
                  ins, ar.vs)

ExprInstCall(m) ==
    ExprCalled(m, Code(Top(m).Script),
               Arguments(Top(m), Sp(m), Argn(Code(Top(m).Script).op)))

\* A Calculor: m is the machine, whose top executor is the expression's,
\* n the current instruction code, v its value, p a panic under way.
Calculator(m) == [m |-> m, n |-> "", v |-> 0, p |-> NoPanic]
CalcPanic(c, e) == [c EXCEPT !.p = PErr(e)]

\* Calculor.next after c.call() returned code and r.
CalcTaken(c, code, r) ==
    IF r.p.e # "" THEN [c EXCEPT !.m = r.m, !.p = r.p]
    ELSE IF Len(r.val) > 1
    THEN [c EXCEPT !.m = r.m, !.n = code, !.v = 0, !.p = PErr("exprValues")]
    ELSE IF Len(r.val) = 1 /\ r.val[1][1] \notin {"Int", "Float"}
    THEN [c EXCEPT !.m = r.m, !.n = code, !.v = 0, !.p = PErr("exprType")]
    ELSE [c EXCEPT !.m = r.m, !.n = code,
                   !.v = IF Len(r.val) = 1 THEN r.val[1][2] ELSE 0]

\* Calculor.next over exprNext: one instruction is called and its raw return
\* values are taken.
CalcNext(c) ==
    IF c.p.e # "" THEN c
    ELSE IF End(Top(c.m).Script) THEN [c EXCEPT !.n = ExprEnd]
    ELSE CalcTaken(c, Code(Top(c.m).Script).op, ExprInstCall(c.m))

precedence(op) ==
    CASE op \in {"Mul", "Div"} -> 2
      [] op \in {"Add", "Sub"} -> 1
      [] OTHER -> 0

\* The parsers return the Calculor and the expression tree e.
Parsed(c, e) == [c |-> c, e |-> e]
Unary(op, r) == Parsed(r.c, <<"unary", op, r.e>>)

parsePrimary(c) ==
    IF c.p.e # "" THEN Parsed(c, <<>>)
    ELSE IF c.n # ExprEnd THEN Parsed(CalcNext(c), <<"value", c.v>>)
    ELSE Parsed(CalcPanic(c, "exprEnded"), <<>>)

RECURSIVE parseUnary(_)
\* parseUnary after the operator op, c1 being the Calculor after a.next().
UnaryOperand(op, c1) ==
    IF c1.p.e # "" THEN Parsed(c1, <<>>)
    ELSE IF c1.n = ExprEnd THEN Parsed(CalcPanic(c1, "exprOperand"), <<>>)
    ELSE Unary(op, parseUnary(c1))

parseUnary(c) ==
    IF c.p.e # "" THEN Parsed(c, <<>>)
    ELSE IF c.n \in {"Add", "Sub"} THEN UnaryOperand(c.n, CalcNext(c))
    ELSE parsePrimary(c)

RECURSIVE parseBinary(_, _)
RECURSIVE BinarySame(_, _, _)
RECURSIVE BinaryDown(_, _, _, _)

BinaryJoin(op, lhs, prec, r) == BinarySame(r.c, <<"binary", op, lhs, r.e>>, prec)

\* The body of the inner loop, c1 being the Calculor after a.next().
BinaryOperand(op, lhs, prec, c1) ==
    IF c1.p.e # "" THEN Parsed(c1, lhs)
    ELSE IF c1.n = ExprEnd THEN Parsed(CalcPanic(c1, "exprOperand"), lhs)
    ELSE BinaryJoin(op, lhs, prec, parseBinary(c1, prec + 1))

\* The inner loop of parseBinary: the operators of precedence prec.
BinarySame(c, lhs, prec) ==
    IF c.p.e # "" \/ precedence(c.n) # prec THEN Parsed(c, lhs)
    ELSE BinaryOperand(c.n, lhs, prec, CalcNext(c))

BinaryStep(r, prec, prec1) == BinaryDown(r.c, r.e, prec - 1, prec1)

\* The outer loop of parseBinary: prec descends to prec1.
BinaryDown(c, lhs, prec, prec1) ==
    IF c.p.e # "" \/ prec < prec1 THEN Parsed(c, lhs)
    ELSE BinaryStep(BinarySame(c, lhs, prec), prec, prec1)

BinaryFrom(r, prec1) == BinaryDown(r.c, r.e, precedence(r.c.n), prec1)

parseBinary(c, prec1) == BinaryFrom(parseUnary(c), prec1)

parseExpr(c) == parseBinary(c, 1)

\* Fractions <<numerator, denominator>>.
FracMul(x, y) == <<x[1] * y[1], x[2] * y[2]>>
FracDiv(x, y) == <<x[1] * y[2], x[2] * y[1]>>
FracAdd(x, y) == <<x[1] * y[2] + y[1] * x[2], x[2] * y[2]>>
FracSub(x, y) == <<x[1] * y[2] - y[1] * x[2], x[2] * y[2]>>
FracNeg(x) == <<0 - x[1], x[2]>>

\* Eval of a tree, as a fraction.
RECURSIVE Eval(_)
Eval(e) ==
    CASE e[1] = "value" -> <<e[2], 1>>
      [] e[1] = "unary" /\ e[2] = "Add" -> Eval(e[3])
      [] e[1] = "unary" /\ e[2] = "Sub" -> FracNeg(Eval(e[3]))
      [] e[1] = "binary" /\ e[2] = "Mul" -> FracMul(Eval(e[3]), Eval(e[4]))
      [] e[1] = "binary" /\ e[2] = "Div" -> FracDiv(Eval(e[3]), Eval(e[4]))
      [] e[1] = "binary" /\ e[2] = "Add" -> FracAdd(Eval(e[3]), Eval(e[4]))
      [] e[1] = "binary" /\ e[2] = "Sub" -> FracSub(Eval(e[3]), Eval(e[4]))

Float(x) == FloatV(x[1], x[2])

\* Calculor.Calc after parseExpr returned r: the Calculor at its end and the
\* Float f.
CalcEnd(r) ==
    IF r.c.p.e # "" THEN [c |-> r.c, f |-> Nil]
    ELSE IF r.c.n # ExprEnd THEN [c |-> CalcPanic(r.c, "exprSyntax"), f |-> Nil]
    ELSE [c |-> r.c, f |-> Float(Eval(r.e))]

Calc(c) == CalcEnd(parseExpr(CalcNext(c)))

\* The expression is evaluated within the call: its executor is on the
\* frames only while Calc runs, and stays there when Calc panics.
Calculated(c, n) ==
    IF c.c.p.e # "" THEN Raise(c.c.m, c.c.p)
    ELSE Done([ExprOut(c.c.m, Top(c.c.m)) EXCEPT !.frames = SubSeq(@, 1, n)], <<c.f>>)

_Expr(m, ins, vs) ==
    Calculated(Calc(Calculator(ExprIn([m EXCEPT !.frames =
                   Append(SubSeq(@, 1, Len(@) - 1),
                          Revert(Top(m))) \o <<ExprNew(Top(m), ins.body)>>],
                   Top(m)))),
               Len(m.frames))

\* Actuator.EvalNew, with sp the spaces scopeNew has made and g the global
\* map make has made; countx and loopVar stay nil.
EvalNew(a, code, sp, g) ==
    [Actuator("EvalNew", "runEmbed", a.ID, code, sp, FALSE, FALSE) EXCEPT !.global = g]

\* _EVAL up to runEmbed(a2); the handler keeps a2's spaces in h.
_EVAL(m, ins, vs) ==
    LET m1 == SetTop(m, Revert(Top(m)))
        m2 == [m1 EXCEPT !.spaces = Append(@, scopeNew(Sp(m1))),
                         !.globals = Append(@, <<>>)]
    IN  IF vs[1][1] # "Script" THEN Raise(m1, PErr("typeAssert"))
        ELSE Enter(SetTop(m2, [Top(m2) EXCEPT !.h = [op |-> "EVAL", sp |-> Len(m2.spaces)]]),
                   EvalNew(Top(m2), vs[1][2], Len(m2.spaces), Len(m2.globals)))

\* _EVAL once runEmbed has returned: a2.StackData() in one slice.
EvalData(m, sp) == Done(m, <<Anys(m.spaces[sp].stack)>>)

\* _MODEL once model.Check has returned c.
ModelChecked(m, ins, c) ==
    IF c.p # "" THEN Raise(m, PErr(c.p))
    ELSE IF ins.n = 0 THEN Done(m, <<BoolV(c.ok)>>)
    ELSE IF c.ok THEN Done(m, <<Anys(c.data)>>)
    ELSE Raise(m, PErr("ErrModel"))

_MODEL(m, ins, vs) ==
    IF vs[1][1] \notin {"Bytes", "Script"} THEN Raise(SetTop(m, Revert(Top(m))), PErr("neverToHere"))
    ELSE ModelChecked(SetTop(m, Revert(Top(m))), ins, Check(vs[1][2], ins.body))

\* ---------------------------------------------------------------- dispatch
\* __InstSet[c].Call
Call(op, m, ins, vs) ==
    CASE op = "NIL" -> _NIL(m, ins, vs)
      [] op = "TRUE" -> _TRUE(m, ins, vs)
      [] op = "Uint8" -> _Int(m, ins, vs)
      [] op = "Capture" -> _Capture(m, ins, vs)
      [] op = "Bring" -> _Bring(m, ins, vs)
      [] op = "ScopeAdd" -> _ScopeAdd(m, ins, vs)
      [] op = "NOP" -> _NOP(m, ins, vs)
      [] op = "PUSH" -> _PUSH(m, ins, vs)
      [] op = "POP" -> _POP(m, ins, vs)
      [] op = "INPUT" -> _INPUT(m, ins, vs)
      [] op = "GOTO" -> _GOTO(m, ins, vs)
      [] op = "JUMP" -> _JUMP(m, ins, vs)
      [] op = "ENV" -> _ENV(m, ins, vs)
      [] op = "EXIT" -> _EXIT(m, ins, vs)
      [] op = "RETURN" -> _RETURN(m, ins, vs)
      [] op = "IF" -> _IF(m, ins, vs)
      [] op = "ELSE" -> _ELSE(m, ins, vs)
      [] op = "BLOCK" -> _BLOCK(m, ins, vs)
      [] op = "SWITCH" -> _SWITCH(m, ins, vs)
      [] op = "CASE" -> _CASE(m, ins, vs)
      [] op = "DEFAULT" -> _DEFAULT(m, ins, vs)
      [] op = "FALLTHROUGH" -> _FALLTHROUGH(m, ins, vs)
      [] op = "CONTINUE" -> _CONTINUE(m, ins, vs)
      [] op = "BREAK" -> _BREAK(m, ins, vs)
      [] op = "EACH" -> _EACH(m, ins, vs)
      [] op = "LoopVal" -> _LoopVal(m, ins, vs)
      [] op = "RANGE" -> _RANGE(m, ins, vs)
      [] op = "VAR" -> _VAR(m, ins, vs)
      [] op = "SETVAR" -> _SETVAR(m, ins, vs)
      [] op = "OUTPUT" -> _OUTPUT(m, ins, vs)
      [] op = "BUFDUMP" -> _BUFDUMP(m, ins, vs)
      [] op = "MAP" -> _MAP(m, ins, vs)
      [] op = "FILTER" -> _FILTER(m, ins, vs)
      [] op = "Expr" -> _Expr(m, ins, vs)
      [] op = "MODEL" -> _MODEL(m, ins, vs)
      [] op = "EVAL" -> _EVAL(m, ins, vs)
      [] op \in {"Mul", "Div", "Add", "Sub"} -> accessPanic(m, ins, vs)

Min(a, b) == IF a < b THEN a ELSE b

\* What instCall hands back: what the handler did (r), the arguments vs it
\* was called with, and whether it was called at all.
Invoked(r, vs, called) ==
    [m |-> r.m, val |-> r.val, p |-> r.p, child |-> r.child, vs |-> vs,
     called |-> called]

\* instCall(a) for the innermost executor.  `s := a.Script` copies the
\* Script value, so s.Next moves the copy kept in field s, not a.Script.
instCall(m) ==
    LET a == Top(m)
        ins == Code(a.Script)
        s == ScriptNext(a.Script, Size(ins))
        ar == Arguments(a, Sp(m), Argn(ins.op))
        m1 == SetSp(SetTop(m, [a EXCEPT !.s = s, !.calls = Min(@ + 1, MaxCalls)]), ar.sp)
    IN  IF ar.err # "" THEN Invoked(Raise(m1, PErr(ar.err)), <<>>, FALSE)
        ELSE Invoked(Call(ins.op, m1, ins, ar.vs), ar.vs, TRUE)

\* a.ReturnPut(x, val) and the end of one pass of codeRun's loop: [m, p].
Finish(m, val) ==
    LET q == ReturnPut(Top(m), Sp(m), Top(m).x, val)
        a1 == [q.a EXCEPT !.done = Min(@ + 1, MaxCalls), !.pend = ""]
    IN  IF q.err # "" THEN [m |-> SetSp(SetTop(m, q.a), q.sp), p |-> PErr(q.err)]
        ELSE [m |-> SetTop(SetSp(m, q.sp), a1), p |-> NoPanic]

\* The end of one pass of codeRun's loop on the executor a of machine m,
\* given what instCall handed back (r): the pass stops at the panic, or at
\* the codeRun call of the child the handler has built, or runs ReturnPut.
\* [m, p, raised: the handler's panic, vs and called as instCall tells,
\* routed: ReturnPut got values, d: stack depth at that point, val: the
\* values].
PassEnd(a, n, r) ==
    IF r.p.e # ""
    THEN [m |-> r.m, p |-> r.p, raised |-> r.p, vs |-> r.vs, called |-> r.called,
          routed |-> FALSE, d |-> 0, val |-> <<>>]
    ELSE IF r.child
    THEN [m |-> [r.m EXCEPT !.frames[n].pend = Code(a.Script).op],
          p |-> NoPanic, raised |-> NoPanic, vs |-> r.vs, called |-> r.called,
          routed |-> FALSE, d |-> 0, val |-> <<>>]
    ELSE [m |-> Finish(r.m, r.val).m, p |-> Finish(r.m, r.val).p,
          raised |-> NoPanic, vs |-> r.vs, called |-> r.called,
          routed |-> r.val # <<>>, d |-> Len(Sp(r.m).stack), val |-> r.val]

\* One pass of the body of codeRun's loop on the innermost executor:
\* x := a.BackTo; a.ReturnPut(x, instCall(a)).
codeRunPass(m) ==
    PassEnd(Top(m), Len(m.frames), instCall(SetTop(m, [Top(m) EXCEPT !.x = Top(m).BackTo])))

\* The rest of the handler `op` once codeRun of its child has returned.
Resume(op, a) == IF op = "ELSE" THEN [a EXCEPT !.Ifs = "nil"] ELSE a

\* A recover of runEmbed and ScriptRun that lets no Leave through, EXIT
\* included.
Recover_NoExit(run, p) ==
    IF run \in {"runEmbed", "ScriptRun"} /\ p.e = "Leave"
    THEN PErr("neverToHere")
    ELSE p

\* The deferred recover of the function that runs codeRun on an executor.
Recover(run, p) ==
    IF run \in {"runEmbed", "ScriptRun", "execPart"} /\ p.e = "Leave" /\ p.Kind # "EXIT"
    THEN PErr("neverToHere")
    ELSE IF run = "execScope" /\ p.e = "Leave" /\ p.Kind # "RETURN"
    THEN PErr("neverToHere")
    ELSE p

\* The recover of execPart keeps a cease, that of execScope a RETURN.
Catches(run, p) ==
    \/ run = "execPart" /\ p.e = "cease"
    \/ run = "execScope" /\ p.e = "Leave" /\ p.Kind = "RETURN"

RECURSIVE Catcher(_, _, _)
\* The frame whose envelope keeps the panic p raised in frame i; 0 if none.
Catcher(fs, i, p) ==
    IF i = 0 THEN 0
    ELSE IF Catches(fs[i].run, p) THEN i
    ELSE Catcher(fs, i - 1, Recover(fs[i].run, p))

RECURSIVE Unwind(_, _, _)
\* The panic p as it leaves frame 1, raised in frame i.
Unwind(fs, i, p) == IF i = 0 THEN p ELSE Unwind(fs, i - 1, Recover(fs[i].run, p))

\* The machine with frames 1..n only: the executors above have returned.
Cut(m, n) == [m EXCEPT !.frames = SubSeq(@, 1, n)]

\* The rest of the handler the innermost executor of m waits in, once the
\* envelope of its child has returned; x is the panic that envelope kept,
\* NoPanic after a normal end.
After(m, x) ==
    CASE Top(m).pend = "CASE" -> CaseLeave(m)
      [] Top(m).pend = "DEFAULT" -> Raise(SetTop(m, SwitchReset(Top(m))), Cease("BREAK"))
      [] Top(m).pend = "EACH" -> sliceEachNext(m, Code(Top(m).Script).body, Top(m).h, x)
      [] Top(m).pend \in {"MAP", "FILTER"} -> mapSliceNext(m, Top(m).h, x)
      [] Top(m).pend = "EVAL" -> EvalData(m, Top(m).h.sp)
      [] OTHER -> Done(m, <<>>)

\* The end of the pass of the innermost executor of m, whose handler was
\* waiting for a child executor.
Resumed(m, x) == PassEnd(Top(m), Len(m.frames), Invoked(After(m, x), <<>>, TRUE))

RECURSIVE Settle(_)
\* The pass end r once its panic, if any, has gone up the call stack: kept
\* by an envelope, whose caller then runs on, or by none.
Settle(r) ==
    IF r.p.e = "" THEN r
    ELSE IF Catcher(r.m.frames, Len(r.m.frames), r.p) = 0
    THEN [r EXCEPT !.p = Unwind(r.m.frames, Len(r.m.frames), r.p)]
    ELSE Settle(Resumed(Cut(r.m, Catcher(r.m.frames, Len(r.m.frames), r.p) - 1), r.p))

\* ------------------------------------------------------------ runs checked
\* The script of sections 8 and 9 of the description.
ScriptExitInBlock == <<I_BLOCK(<<I_Uint8(1), I_EXIT>>)>>
ScriptReturnInBlock == <<I_BLOCK(<<I_Uint8(1), I_RETURN>>)>>
ScriptExitNested == <<I_BLOCK(<<I_Capture, I_Uint8(1), I_EXIT, I_NOP>>), I_NOP>>
ScriptIfElse == <<I_TRUE, I_IF(<<I_Uint8(7), I_PUSH>>), I_ELSE(<<I_Uint8(9), I_PUSH>>)>>

TopScripts ==
    { <<>>, <<I_NIL>>, <<I_TRUE>>, <<I_Uint8(1)>>, <<I_NOP>>, <<I_PUSH>>,
      <<I_POP>>, <<I_EXIT>>, <<I_RETURN>>,
      <<I_Capture, I_TRUE, I_NIL>>, <<I_Capture, I_NOP>>, <<I_Bring, I_POP>>,
      <<I_ScopeAdd, I_TRUE>>,
      <<I_INPUT(0)>>, <<I_INPUT(1)>>, <<I_INPUT(3)>>,
      <<I_GOTO(0)>>, <<I_GOTO(1)>>, <<I_GOTO(2)>>, <<I_GOTO(4)>>, <<I_GOTO(6)>>,
      <<I_GOTO(7)>>,
      <<I_JUMP(0)>>, <<I_JUMP(1)>>, <<I_JUMP(3)>>, <<I_JUMP(5)>>,
      <<I_GOTO(8)>>, <<I_JUMP(8)>>, <<I_JUMP(9)>>,
      <<I_ENV(EnvInGoto)>>, <<I_ENV(EnvInJump)>>, <<I_GOTO(17)>>, <<I_JUMP(18)>>,
      <<I_GOTO(18)>>, <<I_JUMP(17)>>,
      <<I_BLOCK(<<>>)>>, <<I_BLOCK(<<I_JUMP(0)>>)>>,
      <<I_BLOCK(<<I_EXIT, I_NOP>>), I_NOP>>,
      <<I_BLOCK(<<I_BLOCK(<<I_EXIT>>), I_NOP>>)>>, <<I_BLOCK(<<I_RETURN>>)>>,
      <<I_IF(<<I_NOP>>)>>, <<I_ELSE(<<I_NOP>>)>>,
      ScriptExitInBlock, ScriptReturnInBlock, ScriptExitNested, ScriptIfElse }

\* What the client has put into the input buffer before the run.
InputOf(n) == [i \in 1..n |-> IntV(i)]
Inputs == {InputOf(n) : n \in 0..MaxInput} \cup {InputOf(StackMax + 1), InputOf(StackMax + 2)}

\* ev before the first pass: the instruction op of executor frames[nf] was
\* dispatched with back_to x while the counters stood at gotos, jumps, gets;
\* its handler was called with vs and raised `raised`; ReturnPut got val
\* when the stack was d deep; switchX and through are that executor's
\* switchX and the flag its through points to, as the pass began.
NoEv ==
    [op |-> "", x |-> StackFlag, vs |-> <<>>, called |-> FALSE, raised |-> NoPanic,
     routed |-> FALSE, d |-> 0, val |-> <<>>,
     gotos |-> 0, jumps |-> 0, gets |-> 0, nf |-> 0,
     switchX |-> NoSwitch, through |-> FALSE]

\* ret before the first direct call: Arguments(n) was called on an executor
\* with this stack, args and FromStack and returned vs or raised err.
NoRet ==
    [called |-> FALSE, n |-> 0, stack |-> <<>>, args |-> <<>>, FromStack |-> FALSE,
     vs |-> <<>>, err |-> ""]

Init ==
    /\ \E code \in TopScripts : frames = <<NewActuator(0, code)>>
    /\ \E in \in Inputs : spaces = <<[NewSpaces EXCEPT !.bufin = in]>>
    /\ gotos = 0
    /\ jumps = 0
    /\ pool = <<>>
    /\ gets = 0
    /\ envs = [InGoto |-> FALSE, InJump |-> FALSE]
    /\ result = "running"
    /\ payload = Nil
    /\ fault = ""
    /\ ev = NoEv
    /\ ret = NoRet
    /\ globals = <<<<>>>>
    /\ sent = <<>>
    /\ ch = <<>>
    /\ procs = <<>>
    /\ serve = NoServe
    /\ match = NoMatch

\* The machine r.m becomes the state; a panic q, which is r.p after the
\* recovers of all frames, ends the run.
Commit(r, q, e) ==
    /\ frames' = r.m.frames
    /\ spaces' = r.m.spaces
    /\ gotos' = r.m.gotos
    /\ jumps' = r.m.jumps
    /\ pool' = r.m.pool
    /\ gets' = r.m.gets
    /\ envs' = r.m.envs
    /\ result' = IF q.e = "" THEN "running"
                 ELSE IF q.e = "Leave" THEN "exit" ELSE "fatal"
    /\ payload' = IF q.e = "Leave" THEN q.Data ELSE Nil
    /\ fault' = IF q.e # "Leave" THEN q.e ELSE ""
    /\ ev' = e
    /\ globals' = r.m.globals
    /\ sent' = r.m.sent
    /\ ch' = ch
    /\ UNCHANGED <<ret, procs, serve, match>>

\* codeRun's loop is about to call instCall on an instruction `op`.
Dispatch(op) ==
    /\ result = "running"
    /\ Top(Machine).pend = ""
    /\ ~End(Top(Machine).Script)
    /\ Code(Top(Machine).Script).op = op

\* What a pass that ended as r leaves in ev.
EvOf(r) ==
    [op |-> Code(Top(Machine).Script).op, x |-> Top(Machine).BackTo,
     vs |-> r.vs, called |-> r.called, raised |-> r.raised,
     routed |-> r.routed, d |-> r.d, val |-> r.val, gotos |-> gotos,
     jumps |-> jumps, gets |-> gets, nf |-> Len(frames),
     switchX |-> Top(Machine).switchX,
     through |-> IF Top(Machine).switchX.through = 0 THEN FALSE
                 ELSE Fallthrough(Machine, Top(Machine))]

Settled(s, e) == Commit(s, s.p, e)

Landed(r) == Settled(Settle(r), EvOf(r))

\* One pass of codeRun's loop.
Pass == Landed(codeRunPass(Machine))

Step_NIL == Dispatch("NIL") /\ Pass
Step_TRUE == Dispatch("TRUE") /\ Pass
Step_Int == Dispatch("Uint8") /\ Pass
Step_Capture == Dispatch("Capture") /\ Pass
Step_Bring == Dispatch("Bring") /\ Pass
Step_ScopeAdd == Dispatch("ScopeAdd") /\ Pass
Step_NOP == Dispatch("NOP") /\ Pass
Step_PUSH == Dispatch("PUSH") /\ Pass
Step_POP == Dispatch("POP") /\ Pass
Step_INPUT == Dispatch("INPUT") /\ Pass
Step_GOTO == Dispatch("GOTO") /\ Pass
Step_JUMP == Dispatch("JUMP") /\ Pass
Step_ENV == Dispatch("ENV") /\ Pass
Step_EXIT == Dispatch("EXIT") /\ Pass
Step_RETURN == Dispatch("RETURN") /\ Pass
Step_IF == Dispatch("IF") /\ Pass
Step_ELSE == Dispatch("ELSE") /\ Pass
Step_BLOCK == Dispatch("BLOCK") /\ Pass

\* The machine once the innermost executor is gone and the handler that
\* waited for it has run to its end.
Popped ==
    [Machine EXCEPT
        !.frames = [i \in 1..(Len(frames) - 1) |->
                      IF i = Len(frames) - 1
                      THEN Resume(frames[i].pend, frames[i])
                      ELSE frames[i]]]

Returned(f) == Commit(f, f.p, [NoEv EXCEPT !.op = "return"])

\* codeRun of a child executor finds Script.End(): the child's envelope
\* returns, the waiting handler of the parent finishes, the parent's pass ends.
ChildReturn ==
    /\ result = "running"
    /\ Len(frames) > 1
    /\ Top(Machine).pend = ""
    /\ End(Top(Machine).Script)
    /\ Returned(Settle(Resumed(Popped, NoPanic)))

\* codeRun of the top-level executor finds Script.End(): ScriptRun returns nil.
ScriptRunReturn ==
    /\ result = "running"
    /\ Len(frames) = 1
    /\ End(Top(Machine).Script)
    /\ result' = "normal"
    /\ payload' = Nil
    /\ ev' = [NoEv EXCEPT !.op = "return"]
    /\ UNCHANGED <<frames, spaces, gotos, jumps, pool, gets, envs, fault, ret,
                   globals, sent, ch, procs, serve, match>>

Next ==
    \/ Step_NIL \/ Step_TRUE \/ Step_Int
    \/ Step_Capture \/ Step_Bring \/ Step_ScopeAdd
    \/ Step_NOP \/ Step_PUSH \/ Step_POP \/ Step_INPUT
    \/ Step_GOTO \/ Step_JUMP \/ Step_EXIT \/ Step_RETURN \/ Step_ENV
    \/ Step_IF \/ Step_ELSE \/ Step_BLOCK
    \/ ChildReturn
    \/ ScriptRunReturn

Spec == Init /\ [][Next]_vars

\* The same runs on an executor whose client has, before ScriptRun, put
\* values into the args region (PutArgs) and on the data stack (StackPush).
Seeds == {<<>>, <<IntV(5)>>, <<IntV(5), IntV(6)>>, <<BoolV(TRUE)>>}

InitSeeded ==
    /\ \E code \in TopScripts : frames = <<NewActuator(0, code)>>
    /\ \E as \in Seeds, st \in Seeds :
          spaces = <<[NewSpaces EXCEPT !.args = put(<<>>, as), !.stack = push(<<>>, st).v]>>
    /\ gotos = 0
    /\ jumps = 0
    /\ pool = <<>>
    /\ gets = 0
    /\ envs = [InGoto |-> FALSE, InJump |-> FALSE]
    /\ result = "running"
    /\ payload = Nil
    /\ fault = ""
    /\ ev = NoEv
    /\ ret = NoRet
    /\ globals = <<<<>>>>
    /\ sent = <<>>
    /\ ch = <<>>
    /\ procs = <<>>
    /\ serve = NoServe
    /\ match = NoMatch

SpecSeeded == InitSeeded /\ [][Next]_vars

\* ------------------------------------------------ SWITCH, EACH and the like
Step_SWITCH == Dispatch("SWITCH") /\ Pass
Step_CASE == Dispatch("CASE") /\ Pass
Step_DEFAULT == Dispatch("DEFAULT") /\ Pass
Step_FALLTHROUGH == Dispatch("FALLTHROUGH") /\ Pass
Step_CONTINUE == Dispatch("CONTINUE") /\ Pass
Step_BREAK == Dispatch("BREAK") /\ Pass
Step_EACH == Dispatch("EACH") /\ Pass
Step_LoopVal == Dispatch("LoopVal") /\ Len(Sp(Machine).args) < MaxArgs /\ Pass
Step_RANGE == Dispatch("RANGE") /\ Pass

Step_VAR == Dispatch("VAR") /\ Pass
Step_SETVAR == Dispatch("SETVAR") /\ Pass
Step_OUTPUT == Dispatch("OUTPUT") /\ Pass
Step_BUFDUMP == Dispatch("BUFDUMP") /\ Pass
Step_MAP == Dispatch("MAP") /\ Pass
Step_FILTER == Dispatch("FILTER") /\ Pass
Step_EVAL == Dispatch("EVAL") /\ Pass
Step_Expr ==
    /\ Dispatch("Expr")
    /\ \A i \in DOMAIN Code(Top(Machine).Script).body :
          Code(Top(Machine).Script).body[i].op \in ExprOps
    /\ Pass

\* The script of section 9 of the description that loops over a range.
ScriptRangeEach == <<I_RANGE(3), I_EACH(<<I_LoopVal(0)>>)>>

ScriptOutputDump == <<I_OUTPUT, I_BUFDUMP(1)>>

\* Scripts that use the output buffer.
CtlOutScripts ==
    { <<I_OUTPUT>>, <<I_BUFDUMP(1)>>, ScriptOutputDump,
      <<I_GOTO(15)>>, <<I_JUMP(15)>>, <<I_GOTO(16)>>, <<I_EVAL>> }

\* Scripts whose callee reads the input buffer.
CtlInScripts == { <<I_GOTO(19)>>, <<I_EVAL>> }

\* The expression of section 9 of the description: ( 5 3 + 2 * ).
ScriptExpr == <<I_Expr(<<I_Uint8(5), I_Uint8(3), I_Add, I_Uint8(2), I_Mul>>)>>
\* ( 7 - 3 - 2 ), ( 2 + 3 * 4 ) and ( - 2 * 3 ).
ScriptSubSub == <<I_Expr(<<I_Uint8(7), I_Sub, I_Uint8(3), I_Sub, I_Uint8(2)>>)>>
ScriptAddMul == <<I_Expr(<<I_Uint8(2), I_Add, I_Uint8(3), I_Mul, I_Uint8(4)>>)>>
ScriptNegMul == <<I_Expr(<<I_Sub, I_Uint8(2), I_Mul, I_Uint8(3)>>)>>

\* $ TRUE ( $(0) ): the expression takes the value `$` has put into the
\* local scope.
ScriptScopeExpr == <<I_ScopeAdd, I_TRUE, I_Expr(<<I_ScopeVal(0)>>)>>

CtlExprScripts ==
    { ScriptExpr, ScriptSubSub, ScriptAddMul, ScriptNegMul,
      <<I_Expr(<<>>)>>, <<I_Expr(<<I_Uint8(5)>>)>>, <<I_Expr(<<I_NIL>>)>>,
      <<I_Expr(<<I_TRUE, I_Add>>)>>, <<I_Expr(<<I_LoopVal(0)>>)>>,
      <<I_EACH(<<I_Expr(<<I_LoopVal(0)>>)>>)>>,
      <<I_EACH(<<I_Expr(<<I_LoopVal(1)>>)>>)>>,
      <<I_Expr(<<I_GOTO(0)>>)>>, <<I_Expr(<<I_JUMP(0)>>)>>,
      <<I_Expr(<<I_ScopeVal(0)>>)>>, ScriptScopeExpr }

\* Scripts built from the structured instructions.
\* EACH{ SWITCH{ CONTINUE } NOP } and the same with BREAK.
SwitchInEach ==
    { <<I_EACH(<<I_SWITCH(<<I_CONTINUE>>), I_NOP>>)>>,
      <<I_EACH(<<I_SWITCH(<<I_BREAK>>), I_NOP>>)>> }

CtlScripts ==
    SwitchInEach \cup
    { <<I_SWITCH(<<>>)>>, <<I_GOTO(19)>>,
      <<I_SWITCH(<<I_CASE(<<>>), I_CASE(<<>>)>>)>>,
      <<I_SWITCH(<<I_CASE(<<I_NOP>>), I_CASE(<<I_TRUE>>), I_DEFAULT(<<I_NIL>>)>>)>>,
      <<I_SWITCH(<<I_CASE(<<I_FALLTHROUGH>>), I_CASE(<<>>)>>)>>,
      <<I_SWITCH(<<I_CASE(<<I_BLOCK(<<I_FALLTHROUGH>>)>>)>>)>>,
      <<I_SWITCH(<<I_DEFAULT(<<>>)>>)>>,
      <<I_SWITCH(<<I_DEFAULT(<<I_TRUE>>)>>)>>,
      <<I_SWITCH(<<I_BREAK>>)>>, <<I_SWITCH(<<I_CONTINUE>>)>>,
      <<I_SWITCH(<<I_NOP>>)>>,
      <<I_CASE(<<>>)>>, <<I_DEFAULT(<<>>)>>, <<I_FALLTHROUGH>>,
      <<I_BREAK>>, <<I_CONTINUE>>,
      <<>>, <<I_SWITCH(<<I_DEFAULT(<<I_NIL>>)>>)>>,
      <<I_EACH(<<>>)>>, <<I_EACH(<<I_CONTINUE>>)>>, <<I_EACH(<<I_BREAK>>)>>,
      <<I_EACH(<<I_JUMP(0)>>)>>, <<I_EACH(<<I_JUMP(10)>>)>>,
      <<I_EACH(<<I_JUMP(11)>>)>>, <<I_EACH(<<I_JUMP(12)>>)>>, <<I_JUMP(13)>>,
      <<I_EACH(<<I_LoopVal(0)>>)>>, <<I_EACH(<<I_BLOCK(<<I_LoopVal(1)>>)>>)>>,
      <<I_LoopVal(0)>>, <<I_RANGE(3)>>, <<I_RANGE(0)>>, ScriptRangeEach,
      <<I_VAR(0)>>, <<I_SETVAR(0)>>, <<I_JUMP(14)>>, <<I_GOTO(14)>>,
      <<I_SETVAR(0), I_VAR(0)>>,
      <<I_MAP(<<I_LoopVal(0), I_RETURN>>)>>, <<I_MAP(<<>>)>>,
      <<I_FILTER(<<I_TRUE, I_RETURN>>)>>, <<I_FILTER(<<>>)>>,
      <<I_MAP(<<I_BLOCK(<<I_LoopVal(0), I_RETURN>>)>>)>>,
      <<I_EACH(<<I_BLOCK(<<I_CONTINUE>>)>>)>>, <<I_EACH(<<I_BLOCK(<<I_BREAK>>)>>)>>,
      <<I_EACH(<<I_IF(<<I_CONTINUE>>)>>)>>,
      <<I_EACH(<<I_GOTO(1)>>)>>, <<I_EACH(<<I_JUMP(5)>>)>>,
      <<I_MAP(<<I_GOTO(0)>>)>>, <<I_EVAL>> }
    \cup CtlOutScripts \cup CtlExprScripts

\* What the client has pushed on the data stack before the run.
CtlStacks ==
    { <<>>,
      <<IntV(5), Anys(<<IntV(5)>>)>>,
      <<IntV(5), Anys(<<IntV(6), IntV(5)>>)>>,
      <<IntV(5), Anys(<<IntV(6), IntV(7)>>)>>,
      <<IntV(5), Anys(<<>>)>>,
      <<IntV(5), IntV(6)>>,
      <<Anys(<<>>), Anys(<<Anys(<<>>)>>)>>,
      <<IntV(5), Anys(<<IntV(5)>>), IntV(5), Anys(<<IntV(6)>>)>>,
      <<Ints(<<>>)>>, <<Ints(<<IntV(7)>>)>>, <<Ints(<<IntV(7), IntV(8)>>)>>,
      <<Anys(<<IntV(7), BoolV(TRUE), Nil>>)>>,
      <<Ints(<<IntV(7), IntV(8)>>), Ints(<<IntV(9)>>)>>,
      <<IntV(0), IntV(1)>>,
      <<BoolV(TRUE), BoolV(TRUE)>> }

\* What the client has put into the output buffer (BufoutPush).
CtlOut == { <<>>, <<IntV(3)>> }

\* What the client has put into the input buffer (BufinPush).
CtlIn == { <<>>, <<IntV(1), IntV(2)>> }

CtlArgs ==
    { <<>>, <<BoolV(TRUE)>>, <<BoolV(FALSE)>>, <<IntV(5)>>, <<BoolV(TRUE), BoolV(TRUE)>>,
      <<Ints(<<IntV(7), IntV(8)>>)>>, <<Ints(<<>>)>>, <<Anys(<<IntV(7)>>), IntV(1)>> }

\* The scripts handed to EVAL in these runs.
EvalArgs ==
    { <<ScriptV(<<>>)>>, <<ScriptV(<<I_GOTO(0)>>)>>, <<ScriptV(<<I_JUMP(0)>>)>>,
      <<ScriptV(<<I_INPUT(1)>>)>>, <<ScriptV(<<I_OUTPUT>>)>>, <<ScriptV(<<I_BUFDUMP(1)>>)>> }

InitCtl ==
    /\ \E code \in CtlScripts : frames = <<NewActuator(0, code)>>
    /\ \E as \in CtlArgs \cup EvalArgs, st \in CtlStacks, out \in CtlOut, in \in CtlIn :
          /\ out # <<>> => frames[1].Script.source \in CtlOutScripts
          /\ in # <<>> => frames[1].Script.source \in CtlInScripts
          /\ as \in EvalArgs <=> frames[1].Script.source = <<I_EVAL>>
          /\ as \in EvalArgs => st = <<>>
          /\ frames[1].Script.source = <<I_VAR(0)>> => (as = <<>> /\ st = <<>>)
          /\ spaces = <<[NewSpaces EXCEPT !.args = put(<<>>, as), !.stack = push(<<>>, st).v,
                                          !.bufout = out, !.bufin = in]>>
    /\ gotos = 0
    /\ jumps = 0
    /\ pool = <<>>
    /\ gets = 0
    /\ envs = [InGoto |-> FALSE, InJump |-> FALSE]
    /\ result = "running"
    /\ payload = Nil
    /\ fault = ""
    /\ ev = NoEv
    /\ ret = NoRet
    /\ globals = <<<<>>>>
    /\ sent = <<>>
    /\ ch = <<>>
    /\ procs = <<>>
    /\ serve = NoServe
    /\ match = NoMatch

NextCtl ==
    \/ Step_NIL \/ Step_TRUE \/ Step_NOP \/ Step_BLOCK
    \/ Step_SWITCH \/ Step_CASE \/ Step_DEFAULT \/ Step_FALLTHROUGH
    \/ Step_CONTINUE \/ Step_BREAK
    \/ Step_EACH \/ Step_LoopVal \/ Step_RANGE \/ Step_JUMP \/ Step_GOTO
    \/ Step_VAR \/ Step_SETVAR \/ Step_OUTPUT \/ Step_BUFDUMP
    \/ Step_MAP \/ Step_FILTER \/ Step_Expr \/ Step_IF \/ Step_EVAL
    \/ Step_ScopeAdd \/ Step_INPUT
    \/ ChildReturn
    \/ ScriptRunReturn

SpecCtl == InitCtl /\ [][NextCtl]_vars

\* --------------------------------------------------- Arguments on its own
\* An executor in any state a handler can meet: up to MaxLen values on the
\* stack, up to MaxLen in the args region, FromStack set (by ~) or not.
StackOf(n) == [i \in 1..n |-> IntV(i)]
ArgsOf(n) == [i \in 1..n |-> IntV(10 + i)]

InitApi ==
    /\ \E f \in BOOLEAN :
          frames = <<[NewActuator(0, <<>>) EXCEPT !.FromStack = f, !.changed = f]>>
    /\ \E d \in 0..MaxLen, k \in 0..MaxLen :
          spaces = <<[NewSpaces EXCEPT !.stack = StackOf(d), !.args = ArgsOf(k)]>>
    /\ gotos = 0
    /\ jumps = 0
    /\ pool = <<>>
    /\ gets = 0
    /\ envs = [InGoto |-> FALSE, InJump |-> FALSE]
    /\ result = "running"
    /\ payload = Nil
    /\ fault = ""
    /\ ev = NoEv
    /\ ret = NoRet
    /\ globals = <<<<>>>>
    /\ sent = <<>>
    /\ ch = <<>>
    /\ procs = <<>>
    /\ serve = NoServe
    /\ match = NoMatch

\* What a call of Arguments(n) that ended as r leaves.
Acquired(n, r) ==
    /\ spaces' = [spaces EXCEPT ![1] = r.sp]
    /\ ret' = [called |-> TRUE, n |-> n, stack |-> spaces[1].stack,
               args |-> spaces[1].args, FromStack |-> frames[1].FromStack,
               vs |-> r.vs, err |-> r.err]
    /\ result' = IF r.err # "" THEN "fatal" ELSE "running"
    /\ fault' = r.err
    /\ UNCHANGED <<frames, gotos, jumps, pool, gets, envs, payload, ev,
                   globals, sent, ch, procs, serve, match>>

\* a.Arguments(n), called as instCall calls it.
CallArguments ==
    /\ result = "running"
    /\ \E n \in -1..(MaxLen + 1) : Acquired(n, Arguments(frames[1], spaces[1], n))

NextApi == CallArguments

SpecApi == InitApi /\ [][NextApi]_vars

\* ----------------------------------------------------- xpool.Get on its own
\* Goroutines call Get(h, n, i) at the same time; each is in procs with its
\* arguments, the key k it made, its position pc in Get and what it returned.
Uint16(x) == x % 65536
Uint32(x) == (x % 65536) + 65536 * ((x \div 65536) % 65536)

\* The ten bytes of cbase.KeyID, big-endian, kept as the three numbers they
\* encode; the key is a []byte.
KeyID(h, n, i) == <<"bytes", <<Uint32(h), Uint32(n), Uint16(i)>>>>

\* Whether a value can be the key of a Go map: a slice cannot, and sync.Map
\* panics on it (hash of unhashable type).
Hashable(k) == k[1] # "bytes"

PoolHs == {0, 1}
PoolNs == {0}
PoolIs == {0, 1, 65536}

\* The call of Get: k := cbase.KeyID(h, n, i).
GetCall ==
    /\ Len(procs) < MaxProcs
    /\ \E h \in PoolHs, n \in PoolNs, i \in PoolIs :
          procs' = Append(procs, [h |-> h, n |-> n, i |-> i, k |-> KeyID(h, n, i),
                                  pc |-> "Load", out |-> Nil])
    /\ UNCHANGED <<frames, spaces, gotos, jumps, pool, gets, envs, result, payload,
                   fault, ev, ret, globals, sent, ch, serve, match>>

\* pool.Load(k), and `return v.([]byte)` on a hit.
Loaded(p) ==
    IF ~Hashable(p.k) THEN [p EXCEPT !.pc = "panicked"]
    ELSE IF p.k \in DOMAIN pool THEN [p EXCEPT !.pc = "returned", !.out = pool[p.k]]
    ELSE [p EXCEPT !.pc = "Store"]

GetLoad ==
    /\ \E j \in DOMAIN procs :
          /\ procs[j].pc = "Load"
          /\ procs' = [procs EXCEPT ![j] = Loaded(procs[j])]
    /\ UNCHANGED <<frames, spaces, gotos, jumps, pool, gets, envs, result, payload,
                   fault, ev, ret, globals, sent, ch, serve, match>>

\* `var code []byte; pool.Store(k, code); return code` after a miss: nothing
\* is fetched, the nil slice is stored.
GetStore ==
    /\ \E j \in DOMAIN procs :
          /\ procs[j].pc = "Store"
          /\ pool' = (procs[j].k :> <<>>) @@ pool
          /\ procs' = [procs EXCEPT ![j].pc = "returned", ![j].out = <<>>]
    /\ UNCHANGED <<frames, spaces, gotos, jumps, gets, envs, result, payload,
                   fault, ev, ret, globals, sent, ch, serve, match>>

InitPool ==
    /\ frames = <<NewActuator(0, <<>>)>>
    /\ spaces = <<NewSpaces>>
    /\ gotos = 0
    /\ jumps = 0
    /\ pool = <<>>
    /\ gets = 0
    /\ envs = [InGoto |-> FALSE, InJump |-> FALSE]
    /\ result = "running"
    /\ payload = Nil
    /\ fault = ""
    /\ ev = NoEv
    /\ ret = NoRet
    /\ globals = <<<<>>>>
    /\ sent = <<>>
    /\ ch = <<>>
    /\ procs = <<>>
    /\ serve = NoServe
    /\ match = NoMatch

\* GetStore is no step of the program: Load never returns (PoolNoStore).
NextPool == GetCall \/ GetLoad

SpecPool == InitPool /\ [][NextPool]_vars

\* ---------------------------------------------------- xpool.Serve on its own
\* xpool.Size, the limit that Serve takes when it is given none.
PoolSize == 16384
ServeLimits == {0 - 1, 0, 2}

\* The variables that xpool.Serve leaves alone.
serveOthers ==
    <<frames, spaces, gotos, jumps, pool, gets, envs, result, payload, fault, ev, ret,
      globals, sent, ch, procs, match>>

\* A goroutine calls Serve(limit).
ServeCall ==
    /\ Len(serve.calls) < MaxServe
    /\ \E limit \in ServeLimits :
          serve' = [serve EXCEPT !.calls = Append(@, [limit |-> limit, pc |-> "check"])]
    /\ UNCHANGED serveOthers

\* `if serving { ...; return }` and `if limit <= 0 { limit = Size }`; the
\* read of serving is not synchronized with the write of another call.
ServeCheck ==
    /\ \E j \in DOMAIN serve.calls :
          /\ serve.calls[j].pc = "check"
          /\ serve' = [serve EXCEPT !.calls[j] =
                  IF serve.serving THEN [@ EXCEPT !.pc = "refused"]
                  ELSE [limit |-> IF @.limit <= 0 THEN PoolSize ELSE @.limit,
                        pc |-> "go"]]
    /\ UNCHANGED serveOthers

\* `go func() { tick := ...; for { <-tick; shear(limit) } }()`
ServeGo ==
    /\ \E j \in DOMAIN serve.calls :
          /\ serve.calls[j].pc = "go"
          /\ serve' = [serve EXCEPT !.loops = Append(@, serve.calls[j].limit),
                                    !.calls[j].pc = "set"]
    /\ UNCHANGED serveOthers

\* `serving = true`
ServeSet ==
    /\ \E j \in DOMAIN serve.calls :
          /\ serve.calls[j].pc = "set"
          /\ serve' = [serve EXCEPT !.serving = TRUE, !.calls[j].pc = "returned"]
    /\ UNCHANGED serveOthers

InitServe == InitPool

NextServe == ServeCall \/ ServeCheck \/ ServeGo \/ ServeSet

SpecServe == InitServe /\ [][NextServe]_vars

\* ------------------------------------------------------- shear on its own
\* pool.Delete(k)
PoolDelete(p, k) == [x \in DOMAIN p \ {k} |-> p[x]]

\* The orders in which pool.Range can visit the keys S: each key once.
RangeOrders(S) ==
    {o \in [1..Cardinality(S) -> S] : \A i, j \in DOMAIN o : i # j => o[i] # o[j]}

RECURSIVE shearFrom(_, _, _, _)
\* A callback that deletes from the max-th key on.
shearFrom(p, order, len, max) ==
    IF order = <<>> THEN p
    ELSE shearFrom(IF len + 1 >= max THEN PoolDelete(p, Head(order)) ELSE p,
                   Tail(order), len + 1, max)

RECURSIVE shearRange(_, _, _, _)
\* The callback of shear over the keys still to visit: `len++` and
\* `if len > max { pool.Delete(k) }`.
shearRange(p, order, len, max) ==
    IF order = <<>> THEN p
    ELSE shearRange(IF len + 1 > max THEN PoolDelete(p, Head(order)) ELSE p,
                    Tail(order), len + 1, max)

\* shear(max), with Range visiting the keys in `order`.
shear(p, order, max) == shearRange(p, order, 0, max)

\* The pools a pass can meet, with string keys as the comment on `pool` has
\* them, and the limits of the loop; passes are counted up to MaxPass.
ShearKeys == {"k1", "k2", "k3", "k4"}
ShearPools == UNION {[S -> {<<I_TRUE>>}] : S \in SUBSET ShearKeys}
ShearLimits == {1, 2, PoolSize}
MaxPass == 2

\* `<-tick; shear(limit)` in the loop that Serve started, with no Get
\* under way.
ShearTick ==
    /\ serve.pass.n < MaxPass
    /\ \E j \in DOMAIN serve.loops, order \in RangeOrders(DOMAIN pool) :
          /\ pool' = shear(pool, order, serve.loops[j])
          /\ serve' = [serve EXCEPT !.pass = [n |-> @.n + 1, limit |-> serve.loops[j],
                                              pool |-> pool]]
    /\ UNCHANGED <<frames, spaces, gotos, jumps, gets, envs, result, payload, fault,
                   ev, ret, globals, sent, ch, procs, match>>

\* One call of Serve(limit) has returned and its loop runs.
InitShear ==
    /\ frames = <<NewActuator(0, <<>>)>>
    /\ spaces = <<NewSpaces>>
    /\ gotos = 0
    /\ jumps = 0
    /\ pool \in ShearPools
    /\ gets = 0
    /\ envs = [InGoto |-> FALSE, InJump |-> FALSE]
    /\ result = "running"
    /\ payload = Nil
    /\ fault = ""
    /\ ev = NoEv
    /\ ret = NoRet
    /\ globals = <<<<>>>>
    /\ sent = <<>>
    /\ ch = <<>>
    /\ procs = <<>>
    /\ \E l \in ShearLimits :
          serve = [NoServe EXCEPT !.serving = TRUE, !.loops = <<l>>,
                                  !.calls = <<[limit |-> l, pc |-> "returned"]>>]
    /\ match = NoMatch

NextShear == ShearTick

SpecShear == InitShear /\ [][NextShear]_vars

\* ----------------------------------------------------- model.Check on its own
\* Check is called once with a source and a model; match holds the call,
\* what it returned (out), and what it returns when the maps of the package
\* are those that init assigns (made).
MatchPlain == { I_NIL, I_Uint8(1), I_Uint8(2), I_INPUT(1), I_BLOCK(<<>>),
                I_BLOCK(<<I_NIL>>) }
Upto2(S) == {<<>>} \cup {<<x>> : x \in S} \cup {<<x, y>> : x \in S, y \in S}

MatchSources == Upto2(MatchPlain)
MatchModels == Upto2(MatchPlain \cup {I_Wildcard})

\* The source and the model of section 9 of the description with a capture,
\* and the two with one more instruction.
SourcePick == <<I_Uint8(42), I_Uint63(12345)>>
ModelPick == <<I_Wildcard, I_TypeIs(1), I_ValPick(65)>>

\* ?(1){NIL} on its own and before TRUE, and the sources it is to match or
\* to refuse.
ListB == <<I_NIL>>
ListRests == {<<>>, <<I_TRUE>>}
ListModels == {<<I_Wildlist(SrcLen(ListB))>> \o ListB \o r : r \in ListRests}
ListSources ==
    {<<>>, <<I_NIL>>, <<I_TRUE>>, <<I_NIL, I_TRUE>>, <<I_TRUE, I_NIL>>, <<I_NIL, I_NIL>>}
\* The instructions of m after its `?(len){B}`.
ListRest(m) == SubSeq(m, 2 + Len(ListB), Len(m))

\* The model `A ... B` with A and B the one instruction NIL.
ModelLump == <<I_NIL, I_WildLump, I_NIL>>

PatternCalls ==
    { <<SourcePick, ModelPick>>,
      <<SourcePick \o <<I_NIL>>, ModelPick \o <<I_NIL>>>>,
      <<SourcePick, <<I_Wildcard, I_ValPick(65), I_TypeIs(1)>>>>,
      <<SourcePick, <<I_ValPick(65), I_Wildcard, I_Wildcard>>>>,
      <<SourcePick, <<I_Wildcard, I_ValPick(2), I_Wildcard>>>>,
      <<SourcePick, <<I_Wildcard, I_ValPick(128), I_Wildcard>>>>,
      <<SourcePick, <<I_TypeIs(0), I_Wildcard>>>>,
      <<SourcePick, <<I_TypeIs(99), I_Wildcard>>>>,
      <<<<I_INPUT(1), I_NIL>>, <<I_Wildcard, I_ValPick(3), I_NIL>>>>,
      <<<<I_NIL, I_TRUE, I_NIL>>, <<I_NIL, I_WildLump, I_NIL>>>>,
      <<<<I_NIL, I_NIL>>, <<I_NIL, I_WildLump, I_NIL>>>>,
      <<<<I_NIL>>, <<I_NIL, I_WildLump, I_NIL>>>>,
      <<<<I_NIL, I_TRUE>>, <<I_NIL, I_WildLump>>>>,
      <<<<I_NIL>>, <<I_WildLump, I_NIL>>>>,
      <<<<>>, <<I_WildLump>>>>,
      <<<<I_TRUE, I_NIL>>, <<I_WildLump, I_NIL>>>>,
      <<<<I_NIL, I_NIL, I_NIL>>, ModelLump>>,
      <<<<I_NIL, I_TRUE, I_TRUE, I_NIL>>, ModelLump>>,
      <<<<I_NIL, I_TRUE>>, ModelLump>>,
      <<<<I_TRUE, I_NIL>>, ModelLump>> }
    \cup (ListSources \X ListModels)

MatchCalls == (MatchSources \X MatchModels) \cup PatternCalls

matchOthers ==
    <<frames, spaces, gotos, jumps, pool, gets, envs, result, payload, fault, ev, ret,
      globals, sent, ch, procs, serve>>

Matching(s, m, out, made) == [s |-> s, m |-> m, out |-> out, made |-> made]

CheckCall ==
    /\ match = NoMatch
    /\ \E c \in MatchCalls :
          match' = Matching(c[1], c[2], Check(c[1], c[2]), CheckMade(c[1], c[2]))
    /\ UNCHANGED matchOthers

InitMatch == InitPool

NextMatch == CheckCall

SpecMatch == InitMatch /\ [][NextMatch]_vars

\* ------------------------------------------- the records of BUFDUMP on Ch
\* `go func() { a.Ch <- x }()`: the goroutine started for sent[k] completes
\* its send.  Each record has a goroutine of its own, and they run in any
\* order.
ChSend ==
    /\ \E k \in DOMAIN sent :
          /\ \A j \in DOMAIN ch : ch[j] # k
          /\ ch' = Append(ch, k)
    /\ UNCHANGED <<frames, spaces, gotos, jumps, pool, gets, envs, result, payload,
                   fault, ev, ret, globals, sent, procs, serve, match>>

\* The handlers _OUTPUT and _BUFDUMP called on one executor in the order of
\* the instructions of its script, with up to MaxDump records and up to
\* MaxOut values in the output buffer.
MaxDump == 2
MaxOut == 2
DumpVals == {IntV(7)}
DumpTags == {1, 2}

\* What a handler that ended as r leaves.
Dumped(r) ==
    /\ frames' = r.m.frames
    /\ spaces' = r.m.spaces
    /\ sent' = r.m.sent
    /\ UNCHANGED <<gotos, jumps, pool, gets, envs, result, payload, fault, ev, ret,
                   globals, ch, procs, serve, match>>

CallOUTPUT ==
    /\ Len(spaces[1].bufout) < MaxOut
    /\ \E v \in DumpVals : Dumped(_OUTPUT(Machine, I_OUTPUT, <<v>>))

CallBUFDUMP ==
    /\ Len(sent) < MaxDump
    /\ \E n \in DumpTags : Dumped(_BUFDUMP(Machine, I_BUFDUMP(n), <<>>))

InitDump == InitPool

NextDump == CallOUTPUT \/ CallBUFDUMP \/ ChSend

SpecDump == InitDump /\ [][NextDump]_vars

\* ------------------------------------------------------ MODEL in a script
Step_MODEL == Dispatch("MODEL") /\ Pass

\* A script that is one MODEL instruction, capture off or on, with the
\* source to test in the args region.
\* The scripts `@ ~ MODEL`, `$ ~ MODEL` and `~ MODEL`: MODEL takes one
\* argument and returns one Bool.
ScriptCaptureBring == <<I_Capture, I_Bring, I_MODEL(0, <<>>)>>
ScriptScopeBring == <<I_ScopeAdd, I_Bring, I_MODEL(0, <<>>)>>
ScriptBring == <<I_Bring, I_MODEL(0, <<>>)>>
BringScripts == {ScriptCaptureBring, ScriptScopeBring, ScriptBring}

\* The scripts handed to EVAL.
EvalCodes ==
    { <<>>, <<I_NIL>>, <<I_TRUE>>, <<I_RETURN>>, <<I_EXIT>>,
      <<I_Uint8(1), I_RETURN>>, <<I_Uint8(1), I_EXIT>> }

InitModel ==
    /\ \/ \E c \in MatchCalls, f \in {0, 1} :
            /\ frames = <<NewActuator(0, <<I_MODEL(f, c[2])>>)>>
            /\ spaces = <<[NewSpaces EXCEPT !.args = put(<<>>, <<CodeV(c[1])>>)]>>
       \/ \E code \in BringScripts :
            /\ frames = <<NewActuator(0, code)>>
            /\ spaces = <<[NewSpaces EXCEPT !.args = put(<<>>, <<IntV(5)>>),
                                            !.stack = push(<<>>, <<CodeV(<<>>)>>).v]>>
       \/ \E code \in EvalCodes :
            /\ frames = <<NewActuator(0, <<I_EVAL>>)>>
            /\ spaces = <<[NewSpaces EXCEPT !.args = put(<<>>, <<ScriptV(code)>>)]>>
    /\ gotos = 0
    /\ jumps = 0
    /\ pool = <<>>
    /\ gets = 0
    /\ envs = [InGoto |-> FALSE, InJump |-> FALSE]
    /\ result = "running"
    /\ payload = Nil
    /\ fault = ""
    /\ ev = NoEv
    /\ ret = NoRet
    /\ globals = <<<<>>>>
    /\ sent = <<>>
    /\ ch = <<>>
    /\ procs = <<>>
    /\ serve = NoServe
    /\ match = NoMatch

NextModel ==
    \/ Step_MODEL \/ Step_Capture \/ Step_ScopeAdd \/ Step_Bring
    \/ Step_EVAL \/ Step_NIL \/ Step_TRUE \/ Step_Int \/ Step_RETURN \/ Step_EXIT
    \/ ChildReturn

SpecModel == InitModel /\ [][NextModel]_vars

\* ------------------------------------------------------------- properties
\* What the Go program holds: the fields of the executors on the call
\* stack and the handler each one waits in, the spaces, the counters, the
\* pool and the environment flags.
ProgramState ==
    <<[i \in DOMAIN frames |->
         [Script |-> frames[i].Script, BackTo |-> frames[i].BackTo,
          FromStack |-> frames[i].FromStack, changed |-> frames[i].changed,
          Ifs |-> frames[i].Ifs, scope |-> frames[i].scope, sp |-> frames[i].sp,
          ID |-> frames[i].ID, pend |-> frames[i].pend]],
      spaces, gotos, jumps, pool, envs>>

C3_Arguments ==
    ret.called =>
        LET n == ret.n
            s == ret.stack
            a == ret.args
        IN  /\ n = 0 =>
                /\ ret.err = "" /\ ret.vs = <<>>
                /\ spaces[1].stack = s /\ spaces[1].args = a
            /\ n < 0 =>
                /\ ret.err = "" /\ ret.vs = a
                /\ spaces[1].stack = s /\ spaces[1].args = <<>>
            /\ (n > 0 /\ (ret.FromStack \/ a = <<>>) /\ Len(s) >= n) =>
                /\ ret.err = ""
                /\ ret.vs = [i \in 1..n |-> s[Len(s) - n + i]]
                /\ spaces[1].stack = [i \in 1..(Len(s) - n) |-> s[i]]
                /\ spaces[1].args = a
            /\ (n > 0 /\ (ret.FromStack \/ a = <<>>) /\ Len(s) < n) =>
                /\ ret.err # "" /\ result = "fatal"
            /\ (n > 0 /\ ~ret.FromStack /\ a # <<>> /\ Len(a) = n) =>
                /\ ret.err = "" /\ ret.vs = a
                /\ spaces[1].stack = s /\ spaces[1].args = <<>>
            /\ (n > 0 /\ ~ret.FromStack /\ a # <<>> /\ Len(a) # n) =>
                /\ ret.err = "argsAmount" /\ result = "fatal"

\* Two arguments were popped from a stack of three although the args
\* region held values, because from_stack was set.
C3_Witness ==
    /\ ret.called
    /\ ret.n = 2
    /\ ret.FromStack
    /\ ret.args # <<>>
    /\ Len(ret.stack) = 3
    /\ ret.vs = <<IntV(2), IntV(3)>>
    /\ spaces[1].stack = <<IntV(1)>>

\* C4: the values an instruction returns go to the sink its predecessor
\* chose: in an executor whose script starts `@ TRUE`, once two passes of
\* the loop are complete the args region holds exactly the Bool TRUE
\* returned, and a top-level data stack has received nothing.
C4_CaptureRouting ==
    \A i \in DOMAIN frames :
        LET f == frames[i]
            src == f.Script.source
        IN  (/\ Len(src) >= 2 /\ src[1] = I_Capture /\ src[2] = I_TRUE
             /\ f.pend = "" /\ f.done = 2)
            => /\ spaces[f.sp].args = <<BoolV(TRUE)>>
               /\ (i = 1 => spaces[f.sp].stack = <<>>)

\* C5: at an instruction boundary back_to is Stack and from_stack is false
\* unless the instruction just completed was @, $ or ~: an executor whose
\* script starts with one of these followed by another instruction is, at
\* the boundary after its second instruction, back at Stack and false.
C5_StateReverted ==
    \A i \in DOMAIN frames :
        LET f == frames[i]
            src == f.Script.source
        IN  (/\ Len(src) >= 2
             /\ src[1].op \in {"Capture", "Bring", "ScopeAdd"}
             /\ src[2].op \notin {"Capture", "Bring", "ScopeAdd"}
             /\ f.pend = "" /\ f.done = 2)
            => (f.BackTo = StackFlag /\ ~f.FromStack)

\* C6: each dispatch moves the executor's own offset forward by the size of
\* the instruction decoded, before the handler runs: after its k-th
\* instCall an executor has met k different instructions of its script and
\* its offset is the sum of their sizes.
C6_OffsetAdvances ==
    \A i \in DOMAIN frames :
        LET f == frames[i]
            src == f.Script.source
        IN  f.calls < MaxCalls
            => /\ f.calls <= Len(src)
               /\ f.Script.offset = SrcLen(SubSeq(src, 1, f.calls))

\* C7: ScriptRun terminates.  The run is deterministic, so it can only
\* terminate if no step brings the program back to the state it was in:
\* every step changes a field of some executor, a spaces bundle, a counter,
\* the pool or the environment, or ends the run.
C7_Terminates ==
    [][<<ProgramState, result>>' # <<ProgramState, result>>]_vars

C9_ExitInBlock ==
    /\ (frames[1].Script.source = ScriptExitInBlock /\ result # "running")
          => (result = "exit" /\ payload = IntV(1))
    /\ (frames[1].Script.source = ScriptReturnInBlock /\ result # "running")
          => (result = "fatal" /\ fault = "neverToHere")

\* C10: an IF that is handed the Bool TRUE, in any executor, a fresh
\* top-level one included, sets if_state to true and runs its body in a
\* child; and the run of `TRUE IF{ Uint8(7) PUSH } ELSE{ Uint8(9) PUSH }`
\* ends normally with the stack [Int(7)].
C10_IfElse ==
    /\ (ev.op = "IF" /\ ev.called /\ ev.vs = <<BoolV(TRUE)>>)
          => /\ result = "running"
             /\ Len(frames) = ev.nf + 1
             /\ frames[ev.nf].Ifs = "true"
    /\ (frames[1].Script.source = ScriptIfElse /\ result # "running")
          => (result = "normal" /\ spaces[1].stack = <<IntV(7)>>)

\* C11: in a SWITCH, a CASE whose case value differs from the target and
\* that is not entered by fallthrough consumes that one value and is skipped
\* without ending the switch: the switch executor is still running, with
\* the remaining case values, so that a later CASE or DEFAULT can run.
C11_CaseSkipped ==
    (/\ ev.op = "CASE" /\ ev.called
     /\ ~ev.switchX.nil /\ ev.switchX.cases # <<>>
     /\ Head(ev.switchX.cases)[1] = "Int" /\ ev.switchX.target[1] = "Int"
     /\ Head(ev.switchX.cases) # ev.switchX.target
     /\ ~ev.through)
    => /\ result = "running"
       /\ Len(frames) >= ev.nf
       /\ frames[ev.nf].switchX.cases = Tail(ev.switchX.cases)

\* The largest number in the sequence js, 0 for the empty one.
MaxOf(js) ==
    IF js = <<>> THEN 0
    ELSE CHOOSE x \in {js[k] : k \in DOMAIN js} : \A k \in DOMAIN js : js[k] <= x

C13_RangeEach ==
    (frames[1].Script.source = ScriptRangeEach /\ result # "running")
    => /\ result = "normal"
       /\ spaces[1].stack = <<IntV(0), IntV(1), IntV(2)>>

\* The spaces and globals of a GOTO target are its own, those of a JUMP
\* target are its caller's; a GOTO target starts with the arguments of GOTO
\* as its stack, an empty args region and no globals.
TargetSpaces ==
    \A i \in 2..Len(frames) :
        /\ frames[i].kind = "ScriptNew" =>
              /\ \A j \in 1..(i - 1) :
                    frames[j].sp # frames[i].sp /\ frames[j].global # frames[i].global
              /\ (frames[i].calls = 0 /\ ev.op = "GOTO") =>
                    /\ spaces[frames[i].sp].stack = ev.vs
                    /\ spaces[frames[i].sp].args = <<>>
                    /\ globals[frames[i].global] = <<>>
        /\ frames[i].kind = "EmbedNew" =>
              /\ frames[i].sp = frames[i - 1].sp
              /\ frames[i].global = frames[i - 1].global

C18_OutputOnce ==
    /\ \A k \in DOMAIN sent : sent[k].Data # <<>>
    /\ (ev.op = "BUFDUMP" /\ ev.called /\ Len(sent) > 0 /\ result = "running")
          => \A k \in DOMAIN spaces : spaces[k].bufout = <<>>
    /\ (frames[1].Script.source = ScriptOutputDump /\ frames[1].done >= 2
          /\ result = "running")
          => spaces[1].bufout = <<>>

\* C19: BUFDUMP does not hold up the script: its pass ends without a panic,
\* whether or not a record awaits its receiver, and the executor then stands
\* at the next instruction, which for the script that is one BUFDUMP is the
\* end, so that the run can complete.
C19_DumpProceeds ==
    /\ (ev.op = "BUFDUMP" /\ ev.called) => (ev.raised.e = "" /\ result = "running")
    /\ (frames[1].Script.source = <<I_BUFDUMP(1)>> /\ frames[1].done >= 1)
          => End(frames[1].Script)

\* C15: MAP and FILTER over a slice that has elements run their body for
\* the first element with the loop variables (x0, 0, the slice, n): the
\* handler does not fail, and the body's executor is the innermost one.
C15_MapRunsBody ==
    (/\ ev.op \in {"MAP", "FILTER"} /\ ev.called /\ ev.vs # <<>>
     /\ ev.vs[1][1] \in {"Anys", "Ints"} /\ ev.vs[1][2] # <<>>)
    => /\ ev.raised.e = ""
       /\ result = "running"
       /\ Len(frames) = ev.nf + 1
       /\ frames[ev.nf + 1].loopVar = LoopSet(ev.vs[1], 1)


\* C16: an expression of numeric operands and infix operators evaluates to
\* the standard arithmetic value as a Float: ( 7 - 3 - 2 ) is 2,
\* ( 2 + 3 * 4 ) is 14 and ( - 2 * 3 ) is -6.
ExprValues == { <<ScriptSubSub, 2>>, <<ScriptAddMul, 14>>, <<ScriptNegMul, 0 - 6>> }
C16_ExprArithmetic ==
    \A x \in ExprValues :
        (frames[1].Script.source = x[1] /\ ev.op = "Expr" /\ ev.nf = 1)
        => /\ ev.raised.e = ""
           /\ ev.val = <<FloatV(x[2], 1)>>

\* C17: the run of ( Uint8(5) Uint8(3) + Uint8(2) * ) completes without
\* failure and leaves Float(16) on top of the data stack.
C17_ExprRun ==
    (frames[1].Script.source = ScriptExpr /\ result # "running")
    => /\ result = "normal"
       /\ spaces[1].stack # <<>>
       /\ spaces[1].stack[Len(spaces[1].stack)] = FloatV(16, 1)


\* No Get gets past pool.Load: none is at Store, and the pool stays empty.
PoolNoStore == pool = <<>> /\ \A j \in DOMAIN procs : procs[j].pc # "Store"

\* C20: under any interleaving of concurrent Gets, a Get(h, n, i) that has
\* ended has returned the bytes the pool holds for the key of (h, n, i),
\* and two Gets whose arguments differ have used different keys.
C20_GetByKey ==
    \A j \in DOMAIN procs :
        /\ procs[j].pc # "Load"
           => /\ procs[j].pc = "returned"
              /\ procs[j].k \in DOMAIN pool
              /\ procs[j].out = pool[procs[j].k]
        /\ \A l \in DOMAIN procs :
              procs[j].k = procs[l].k
              => <<procs[j].h, procs[j].n, procs[j].i>> = <<procs[l].h, procs[l].n, procs[l].i>>

\* The part of C20 about keys alone: Gets with different arguments use
\* different keys.
C20_KeysDiffer ==
    \A j, l \in DOMAIN procs :
        procs[j].k = procs[l].k
        => <<procs[j].h, procs[j].n, procs[j].i>> = <<procs[l].h, procs[l].n, procs[l].i>>


\* C21: however many times Serve is called, and also when calls overlap,
\* at most one eviction loop is ever started.
C21_OneLoop == Len(serve.loops) <= 1

\* Calls of Serve that do not overlap start one loop: when every call before
\* call j had returned or been refused before j read serving, j is refused.
C21_Sequential ==
    \A j \in DOMAIN serve.calls :
        (/\ j > 1
         /\ serve.calls[j].pc = "check"
         /\ \A l \in 1..(j - 1) : serve.calls[l].pc \in {"returned", "refused"})
        => serve.serving /\ Len(serve.loops) >= 1


\* Whether the model instruction z is `_` or equals the source instruction a.
PlainSame(a, z) == z = I_Wildcard \/ z = a
\* Whether source and model have the same number of instructions and each
\* model instruction is `_` or equals the source instruction at its place.
PlainMatch(s, m) ==
    Len(s) = Len(m) /\ \A i \in DOMAIN m : PlainSame(s[i], m[i])
PlainModel(m) == \A i \in DOMAIN m : m[i].op \in {"NIL", "Uint8", "INPUT", "BLOCK", "Wildcard"}

\* C22: for a model of plain instructions and `_`, Check returns (without a
\* panic) true exactly when source and model have the same number of
\* instructions and each model instruction is `_` or equals the source
\* instruction at the same position; a match of identical scripts has no
\* captures.
C22_PlainCheck ==
    (match # NoMatch /\ PlainModel(match.m))
    => /\ match.out.p = ""
       /\ match.out.ok = PlainMatch(match.s, match.m)
       /\ match.out.ok => match.out.data = <<>>

\* The same with the maps that init assigns: the only calls that differ are
\* those with an empty source, or an empty source block, and a model that
\* has instructions, where instor.Raw panics.
Made_PlainCheck ==
    (match # NoMatch /\ PlainModel(match.m))
    => IF match.made.p # ""
       THEN \/ match.s = <<>> /\ match.m # <<>>
            \/ \E i \in DOMAIN match.s : match.s[i] = I_BLOCK(<<>>)
       ELSE /\ match.made.ok = PlainMatch(match.s, match.m)
            /\ match.made.ok => match.made.data = <<>>


\* C23: matching the model `_ !{Int} #(0b0100_0001)` against the source
\* `Uint8(42) Uint63(12345)` succeeds with the capture buffer [42, 12345].
C23_PickLast ==
    (match # NoMatch /\ match.s = SourcePick /\ match.m = ModelPick)
    => /\ match.out.p = ""
       /\ match.out.ok
       /\ match.out.data = <<IntV(42), IntV(12345)>>

\* With the maps that init assigns the capture after the last source
\* instruction is not made and the match fails, while the same capture
\* followed by one more instruction on both sides is made and delivers the
\* opcode and the data of the Uint63.
Made_PickLast ==
    /\ (match # NoMatch /\ match.s = SourcePick /\ match.m = ModelPick)
       => match.made = Checked(<<>>, FALSE, "")
    /\ (match # NoMatch /\ match.s = SourcePick \o <<I_NIL>>
                        /\ match.m = ModelPick \o <<I_NIL>>)
       => match.made = Checked(<<GoInt(6), IntV(12345)>>, TRUE, "")

\* MODEL has run on a Bytes argument.
ModelRan == ev.op = "MODEL" /\ ev.called /\ ev.vs[1][1] = "Bytes"

\* C24 -- MODEL with the capture flag off pushes one Bool and is never
\* fatal, whatever the source and the model are.
C24_ModelBool ==
    (ModelRan /\ frames[1].Script.source[1].n = 0) =>
        (result # "fatal" /\ ev.routed /\ Len(ev.val) = 1 /\ ev.val[1][1] = "Bool")

\* With an empty model Check never consults its maps: MODEL then pushes
\* whether the source is empty too (capture off), or the empty capture
\* list, or raises ErrModel (capture on).
C24_EmptyModel ==
    (ModelRan /\ frames[1].Script.source[1].body = <<>>) =>
        IF frames[1].Script.source[1].n = 0
        THEN result = "running" /\ ev.val = <<BoolV(ev.vs[1][2] = <<>>)>>
        ELSE IF ev.vs[1][2] = <<>>
        THEN result = "running" /\ ev.val = <<Anys(<<>>)>>
        ELSE result = "fatal" /\ fault = "ErrModel"

\* With the maps that init means to fill, Check of an empty source panics
\* unless the model is empty or starts with `...`, and a `...` segment
\* takes nothing from the source.
Made_EmptyPanics ==
    (match # NoMatch /\ match.s = <<>> /\ match.m # <<>>
       /\ Head(match.m).op # "WildLump") =>
        match.made.p = IF Head(match.m).op = "Wildlist" THEN "sliceBounds" ELSE "indexRange"
Made_LumpTakesNothing ==
    (match # NoMatch /\ match.s = <<I_NIL, I_TRUE, I_NIL>>
       /\ match.m = <<I_NIL, I_WildLump, I_NIL>>) => (match.made.p = "" /\ ~match.made.ok)

\* C25 -- `@ ~ X` with X of fixed arity n > 0: once the three
\* instructions have run, X has taken its n arguments from the data stack
\* although the args region is not empty, the values of the args region
\* are kept and X's return values follow them, and both flags are back to
\* normal.
C25_CaptureBring ==
    (frames[1].Script.source = ScriptCaptureBring /\ frames[1].done = 3) =>
        /\ ev.op = "MODEL" /\ ev.vs = <<CodeV(<<>>)>>
        /\ spaces[1].stack = <<>>
        /\ spaces[1].args = <<IntV(5), BoolV(TRUE)>>
        /\ frames[1].BackTo = StackFlag /\ ~frames[1].FromStack

\* The same for `$ ~ X`: the return value goes to the local scope.
C25_ScopeBring ==
    (frames[1].Script.source = ScriptScopeBring /\ frames[1].done = 3) =>
        /\ ev.op = "MODEL" /\ ev.vs = <<CodeV(<<>>)>>
        /\ spaces[1].stack = <<>>
        /\ spaces[1].args = <<IntV(5)>>
        /\ frames[1].scope = <<BoolV(TRUE)>>
        /\ frames[1].BackTo = StackFlag /\ ~frames[1].FromStack

\* What the run does instead: every pass dispatches the first instruction.
C25_FirstAgain ==
    (frames[1].Script.source \in BringScripts /\ ev.op # "") =>
        /\ ev.op = frames[1].Script.source[1].op
        /\ spaces[1].stack = <<CodeV(<<>>)>> /\ spaces[1].args = <<IntV(5)>>

\* Scripts whose MAP or FILTER body returns a value for each element,
\* directly or from a nested BLOCK.
ReturnBodies ==
    { <<I_MAP(<<I_LoopVal(0), I_RETURN>>)>>, <<I_FILTER(<<I_TRUE, I_RETURN>>)>>,
      <<I_MAP(<<I_BLOCK(<<I_LoopVal(0), I_RETURN>>)>>)>> }

\* C26 -- a RETURN in a MAP or FILTER body ends the body's run for one
\* element only and the iteration goes on: over the slice [7, 8] the
\* handler gets to run the body for the first element, so the pass that
\* dispatched MAP or FILTER leaves the run going with the body's executor
\* innermost.
C26_ReturnEndsElement ==
    (/\ frames[1].Script.source \in ReturnBodies
     /\ ev.op \in {"MAP", "FILTER"} /\ ev.nf = 1 /\ ev.called
     /\ ev.vs = <<Ints(<<IntV(7), IntV(8)>>)>>)
    => (result = "running" /\ Len(frames) = 2 /\ frames[2].run = "execScope")

\* No RETURN is dispatched by an executor that runs under execScope.
C26_NoReturnInScope ==
    ev.op = "RETURN" => frames[ev.nf].run # "execScope"

\* C27 -- EVAL runs its script under the execScope envelope, the one that
\* keeps a RETURN and makes an EXIT fatal.
C27_EvalEnvelope ==
    \A i \in DOMAIN frames :
        frames[i].kind = "EvalNew" =>
            /\ frames[i].run = "execScope"
            /\ Catches(frames[i].run, Leave("RETURN", Nil))
            /\ Recover(frames[i].run, Leave("EXIT", Nil)).e = "neverToHere"

\* What the envelope of an EVAL executor does: it makes a RETURN
\* neverToHere and hands an EXIT on as it is.
C27_RunEmbed ==
    \A i \in DOMAIN frames :
        frames[i].kind = "EvalNew" =>
            /\ frames[i].run = "runEmbed"
            /\ Recover(frames[i].run, Leave("RETURN", Nil)).e = "neverToHere"
            /\ Recover(frames[i].run, Leave("EXIT", Nil)) = Leave("EXIT", Nil)

\* EVAL of the empty script yields one slice with no element.
C27_EmptyEval ==
    (ev.op = "return" /\ frames[1].Script.source = <<I_EVAL>> /\ Len(frames) = 1) =>
        (result = "running" /\ spaces[1].stack = <<Anys(<<>>)>>)

\* Only the empty script ends normally under EVAL.
C27_OnlyEmptyEnds ==
    (ev.op = "return" /\ frames[1].Script.source = <<I_EVAL>>) =>
        spaces[1].stack = <<Anys(<<>>)>>

\* C28 -- when a CASE body executes FALLTHROUGH the body of the CASE that
\* follows runs next: a CASE body that is the one instruction FALLTHROUGH
\* is at its end once that instruction is done, so that _CASE returns
\* with the flag set and the switch goes on to the following CASE.
C28_FallsThrough ==
    \A i \in DOMAIN frames :
        (/\ frames[i].kind = "CaseNew" /\ frames[i].Script.source = <<I_FALLTHROUGH>>
         /\ frames[i].pend = "" /\ frames[i].done >= 1)
        => End(frames[i].Script)

\* FALLTHROUGH in a CASE body sets the flag of the enclosing switch, and
\* the body's executor then dispatches FALLTHROUGH again.
C28_ThroughRepeats ==
    \A i \in DOMAIN frames :
        (/\ frames[i].kind = "CaseNew" /\ frames[i].Script.source = <<I_FALLTHROUGH>>
         /\ frames[i].pend = "" /\ frames[i].done >= 1)
        => /\ Fallthrough(Machine, frames[i])
           /\ result = "running"
           /\ Code(frames[i].Script) = I_FALLTHROUGH
           /\ i = Len(frames)

\* C29 -- CONTINUE and BREAK raised inside an IF that is nested in the
\* body of EACH act on the loop: the IF of such a body, handed true, runs
\* its block, in which the CONTINUE then is raised.
C29_NestedIf ==
    (/\ ev.op = "IF" /\ ev.called /\ ev.vs = <<BoolV(TRUE)>>
     /\ frames[1].Script.source = <<I_EACH(<<I_IF(<<I_CONTINUE>>)>>)>>)
    => (result = "running" /\ Len(frames) = ev.nf + 1)

\* CONTINUE raised in the body of EACH, directly or in a nested BLOCK,
\* starts the iteration for the next element, or ends the loop after the
\* last one; BREAK ends the loop at once.
C29_CeaseInEach ==
    (/\ ev.op \in {"CONTINUE", "BREAK"} /\ ev.raised.e = "cease" /\ ev.nf >= 2
     /\ frames[1].pend \in {"", "EACH"}
     /\ frames[1].Script.source \in
            { <<I_EACH(<<I_CONTINUE>>)>>, <<I_EACH(<<I_BREAK>>)>>,
              <<I_EACH(<<I_BLOCK(<<I_CONTINUE>>)>>)>>, <<I_EACH(<<I_BLOCK(<<I_BREAK>>)>>)>> })
    => /\ result = "running"
       /\ IF ev.op = "CONTINUE" /\ ~frames[1].h.ended
          THEN /\ Len(frames) = 2 /\ frames[2].kind = "LoopNew" /\ frames[2].calls = 0
               /\ frames[1].h.i >= 2
               /\ frames[2].loopVar = LoopSet(frames[1].h.data, frames[1].h.i)
          ELSE /\ Len(frames) = 1 /\ frames[1].h.ended
               /\ (ev.op = "CONTINUE" => frames[1].h.i = Len(frames[1].h.data[2]))

\* The kinds of executor that are made without the counters of their maker.
Uncounted == {"ScopeNew", "EvalNew", "ExprNew"}

ExprOf(i) == {j \in DOMAIN frames : frames[j].kind = "ExprNew" /\ frames[j].inExpr = i}

\* C31 -- the expression depth of an executor is the number of expression
\* blocks started from it that are being evaluated, so it is 0 whenever
\* the run is going on between two instructions.  `${i}` dispatched while
\* the depth is 0 appends the loop value to the args region and returns
\* nothing; called while an expression is evaluated it is taken as the
\* operand and the args region stays as it was.
C31_ExprDepth ==
    /\ \A i \in DOMAIN frames :
          /\ frames[frames[i].inExpr].depth = Cardinality(ExprOf(frames[i].inExpr))
          /\ frames[i].kind = "ExprNew" <=> frames[i].inExpr # i
          /\ result = "running" => frames[i].depth = 0
    /\ (ev.op = "LoopVal" /\ ev.called /\ ev.raised.e = "") =>
          /\ ev.val = <<>>
          /\ spaces[frames[ev.nf].sp].args # <<>>
          /\ spaces[frames[ev.nf].sp].args[Len(spaces[frames[ev.nf].sp].args)]
                \in {frames[ev.nf].loopVar[k] : k \in 1..4}
    /\ (/\ ev.op = "Expr" /\ ev.called /\ Len(frames) = ev.nf + 1
         /\ frames[Len(frames)].Script.source \in {<<I_LoopVal(0)>>, <<I_LoopVal(1)>>}
         /\ frames[Len(frames)].loopVar # <<>>) =>
          /\ fault \in {"exprSyntax", "exprType"}
          /\ frames[frames[ev.nf].inExpr].depth = 1
          /\ spaces[frames[ev.nf].sp].args = <<>>

\* The expression ( ${0} ) in the body of EACH has taken the loop value of
\* the first element as its operand.
C31_Witness ==
    /\ ev.op = "Expr" /\ ev.nf = 2 /\ Len(frames) = 3
    /\ frames[2].kind = "LoopNew" /\ frames[2].depth = 1
    /\ frames[3].kind = "ExprNew" /\ frames[3].Script.source = <<I_LoopVal(0)>>
    /\ frames[3].loopVar[1] = IntV(7)
    /\ fault = "exprSyntax"
    /\ spaces[frames[2].sp].args = <<>>

\* C31 -- inside an expression `$(i)` delivers the addressed value of the
\* enclosing code's scope as an operand and leaves the args region as it
\* was: after `$ TRUE`, the third pass of the script evaluates ( $(0) ) with
\* the operand TRUE, which the calculator refuses for its type only.
C31_ScopeOperand ==
    (frames[1].Script.source = ScriptScopeExpr /\ frames[1].done = 3) =>
        /\ ev.op = "Expr" /\ fault = "exprType"
        /\ spaces[1].args = <<>>

\* What the code does with `$(0)` in an expression: the executor of the
\* expression has an empty scope and the index is out of range.
C31_ScopeEmpty ==
    (/\ ev.op = "Expr" /\ ev.called /\ Len(frames) = ev.nf + 1
     /\ frames[Len(frames)].Script.source = <<I_ScopeVal(0)>>) =>
        /\ frames[Len(frames)].scope = <<>>
        /\ fault = "indexRange"

C32_RecordsKept ==
    /\ \A k \in DOMAIN sent : sent[k].Data # <<>> /\ sent[k].ID = frames[1].ID
    /\ \A i, j \in DOMAIN ch : i # j => ch[i] # ch[j]
    /\ \A i \in DOMAIN ch : ch[i] \in DOMAIN sent

\* In a run of ScriptRun no second record is handed over: the executor that
\* has dispatched BUFDUMP dispatches it again, on the buffer it has emptied.
C32_OneRecord == Len(sent) <= 1

\* C33 -- one pass of shear(limit) with no Get under way leaves
\* min(size, limit) entries: size - limit entries are removed when the pool
\* holds more than limit and none otherwise; the entries left are entries
\* the pool held, unchanged.
C33_ShearLeaves ==
    serve.pass.n > 0 =>
        /\ Cardinality(DOMAIN pool) =
              Min(Cardinality(DOMAIN serve.pass.pool), serve.pass.limit)
        /\ DOMAIN pool \subseteq DOMAIN serve.pass.pool
        /\ \A k \in DOMAIN pool : pool[k] = serve.pass.pool[k]
        /\ Cardinality(DOMAIN serve.pass.pool) <= serve.pass.limit
              => pool = serve.pass.pool

\* A pass with limit 2 has met four entries and left two.
C33_Witness ==
    /\ serve.pass.n = 1 /\ serve.pass.limit = 2
    /\ DOMAIN serve.pass.pool = ShearKeys
    /\ Cardinality(DOMAIN pool) = 2

\* C34 -- a model that starts with ?(len){B}: where the source starts with
\* the bytes B, source and model go past them, otherwise only the model
\* goes past `?(len){B}`, and the step succeeds in both cases, so that the
\* source matches exactly when it is B followed by the rest of the model,
\* or the rest of the model alone.
C34_OptionalSequence ==
    (match # NoMatch /\ match.m \in ListModels) =>
        /\ match.out.p = ""
        /\ match.out.ok = (match.s \in {ListB \o ListRest(match.m), ListRest(match.m)})

\* What _Wildlist does once the maps are made: the source is taken to its
\* end where exactly len bytes are left of it, whatever they are, and stays
\* otherwise; the model goes on two bytes, to B, which is then matched as
\* part of the model; a source shorter than len is a panic.
Made_ListNotOptional ==
    (match # NoMatch /\ match.m \in ListModels) =>
        /\ match.made.p # "" <=> match.s = <<>>
        /\ match.made.ok = (match.s = ListB \o ListRest(match.m) /\ Len(match.s) > 1)

\* C35 -- the model `A ... B` matches exactly the sources that are A, then
\* any instructions, then B at the end, also where B occurs in the part
\* that is skipped: with A = B = NIL, the sources of two or more
\* instructions that start and end with NIL.
C35_LumpWindow ==
    (match # NoMatch /\ match.m = ModelLump) =>
        /\ match.out.p = ""
        /\ match.out.ok = (/\ Len(match.s) >= 2
                           /\ match.s[1] = I_NIL /\ match.s[Len(match.s)] = I_NIL)

\* With the maps made `...` skips no instruction in any source: `A ... B`
\* matches the source A B and no other.
Made_LumpWindowEmpty ==
    (match # NoMatch /\ match.m = ModelLump) =>
        /\ match.made.p = ""
        /\ match.made.ok = (match.s = <<I_NIL, I_NIL>>)

\* C36 -- once SETVAR(n) has been executed with the argument v, the global
\* at n reads v in the executor that executed it and in every executor on
\* the call stack that shares its globals.
C36_SetVarRead ==
    (ev.op = "SETVAR" /\ ev.called /\ ev.raised.e = "") =>
        \A i \in DOMAIN frames :
            frames[i].global = frames[ev.nf].global =>
                GlobalValue(Machine, frames[i], Code(frames[ev.nf].Script).n) = ev.vs[1]

\* What SETVAR leaves: the position it names holds nil, whatever the
\* argument was, and no other position of any global map is written.
C36_StoresNil ==
    /\ \A g \in DOMAIN globals : \A k \in DOMAIN globals[g] : globals[g][k] = Nil
    /\ (ev.op = "SETVAR" /\ ev.called /\ ev.raised.e = "") =>
          /\ ev.vs # <<>> /\ ev.vs[1] # Nil
          /\ DOMAIN globals[frames[ev.nf].global] = {Code(frames[ev.nf].Script).n}

C37_TargetReads ==
    /\ (ev.op = "ENV" /\ Len(frames) = 2 /\ frames[1].Script.source = <<I_GOTO(17)>>)
          => ev.val = <<BoolV(TRUE)>>
    /\ (ev.op = "ENV" /\ Len(frames) = 1) => ev.val = <<Nil>>

\* C38 -- a CONTINUE or BREAK raised in a SWITCH that stands in the body of
\* EACH ends the SWITCH only and the iteration goes on with the instruction
\* after the SWITCH: in EACH{ SWITCH{ CONTINUE } NOP } the second
\* instruction that the executor of the body dispatches is the NOP.
C38_AfterSwitch ==
    (/\ frames[1].Script.source \in SwitchInEach
     /\ ev.nf = 2 /\ Len(frames) >= 2
     /\ frames[2].kind = "LoopNew" /\ frames[2].calls = 2)
    => ev.op = "NOP"

\* What holds of it: the CONTINUE or BREAK is kept by the execPart of
\* SWITCH; the run goes on in the executor of the body, for the same
\* element, and the loop has neither moved on nor ended.
C38_SwitchKeeps ==
    (/\ frames[1].Script.source \in SwitchInEach
     /\ ev.op \in {"CONTINUE", "BREAK"} /\ ev.raised.e = "cease")
    => /\ ev.nf = 3 /\ result = "running"
       /\ Len(frames) = 2 /\ frames[2].kind = "LoopNew" /\ frames[2].pend = ""
       /\ frames[1].pend = "EACH" /\ ~frames[1].h.ended /\ frames[1].h.i = 1

\* C39 -- two Gets of the same key that is not in the pool, at the same
\* time: each gets past the lookup, both may fetch and store, each returns
\* bytes fetched for the key, and once both have returned the pool holds
\* the key with the bytes stored last.
C39_SameKeyGets ==
    \A j, l \in DOMAIN procs :
        (/\ j # l
         /\ <<procs[j].h, procs[j].n, procs[j].i>> = <<procs[l].h, procs[l].n, procs[l].i>>
         /\ procs[j].pc # "Load" /\ procs[l].pc # "Load")
        => /\ procs[j].pc \in {"Store", "returned"}
           /\ procs[l].pc \in {"Store", "returned"}
           /\ (procs[j].pc = "returned" /\ procs[l].pc = "returned") =>
                 /\ procs[j].k \in DOMAIN pool
                 /\ pool[procs[j].k] \in {procs[j].out, procs[l].out}

\* What two such Gets do: each ends in the panic of pool.Load.
C39_BothPanic ==
    \A j \in DOMAIN procs : procs[j].pc \in {"Load", "panicked"}

C40_TargetDumps ==
    /\ Len(frames) = 2 /\ frames[2].kind = "ScriptNew"
    /\ ev.op = "BUFDUMP" /\ Len(sent) = 1 /\ sent[1].Data = <<IntV(3)>>
    /\ spaces[frames[2].sp].bufout = <<>>
    /\ spaces[frames[1].sp].bufout = <<IntV(3)>>

\* A callee that has taken a value with INPUT does not return: its first
\* instruction is dispatched again until the buffer is empty, so no caller
\* reads the values again after it.
C40_CalleeInputEnds ==
    (ev.op = "INPUT" /\ ev.nf >= 2) => (Len(frames) >= 2 \/ result = "fatal")

\* No callee's OUTPUT has a value to add: the args region of fresh spaces is
\* empty, and by then the instruction before it would have had to return.
C40_CalleeOutputNone ==
    \A i \in DOMAIN frames : i >= 2 =>
        Len(spaces[frames[i].sp].bufout) <= Len(spaces[frames[i - 1].sp].bufout)
====
